---- MODULE Spec2Model ----
(***************************************************************************)
(* things-cli: a command-line front end that turns task operations into    *)
(* AppleScript text for Things 3, hands the text to osascript and decodes  *)
(* the answer.                                                             *)
(*                                                                         *)
(* Text is modelled as a sequence of tokens.  A character that comes from  *)
(* the user is one token of Chars or of the due-date alphabet; a piece of  *)
(* a template literal of the source is one token holding several           *)
(* characters; the double quote and the backslash are always tokens of     *)
(* their own, wherever they come from.  A script is a sequence of lines    *)
(* (the source ends every statement with "\n"); leading blanks of a line   *)
(* are left out, the host ignores them.                                    *)
(***************************************************************************)
EXTENDS Integers, Sequences, FiniteSets, TLC

VARIABLES
  pc,        \* "idle" | "called" (script handed to osascript) | "done"
  op,        \* the command of the running invocation
  args,      \* its arguments as commander passes them
  tz,        \* local time-zone offset of the process, in hours east of UTC
  script,    \* the script text built by the invocation
  calls,     \* calls of executeAppleScript made by the invocation
  attempts,  \* what the host did while running the script: lookups, reads, writes
  hostErr,   \* the raw error message osascript reported, or NoMsg
  result,    \* the value executeAppleScript resolved with
  outcome,   \* what the command's promise settled to
  host       \* the state of Things 3

vars == <<pc, op, args, tz, script, calls, attempts, hostErr, result, outcome, host>>

(***************************************************************************)
(* Bounds and alphabets                                                    *)
(***************************************************************************)
MaxLen == 2

QUOTE == "\""
BACKSLASH == "\\"
Chars == {"a", " ", QUOTE, BACKSLASH}

\* JavaScript's undefined / null for an option that was not given.
undefined == <<"undefined">>

\* JavaScript's false: what commander stores for a negated option
false == <<"false">>

Strs(n) == UNION {[1..k -> Chars] : k \in 0..n}

\* const x = e; ... x ...: Op applied to the value of e, which is computed
\* once
Once(Op(_), e) == CHOOSE r \in {Op(x) : x \in {e}} : TRUE

RECURSIVE Join(_, _)
\* Array.prototype.join on an array of token sequences
Join(parts, sep) ==
  IF parts = <<>> THEN <<>>
  ELSE IF Len(parts) = 1 THEN parts[1]
  ELSE parts[1] \o sep \o Join(Tail(parts), sep)

(***************************************************************************)
(* JavaScript string primitives used by the commands                       *)
(***************************************************************************)
\* `x` in a condition: a string is truthy unless it is undefined or empty
Truthy(s) == s # undefined /\ s # false /\ s # <<>>

IsWhite(c) == c = " "

RECURSIVE TrimStart(_)
TrimStart(s) ==
  IF s # <<>> /\ IsWhite(Head(s)) THEN TrimStart(Tail(s)) ELSE s

RECURSIVE TrimEnd(_)
TrimEnd(s) ==
  IF s # <<>> /\ IsWhite(s[Len(s)]) THEN TrimEnd(SubSeq(s, 1, Len(s) - 1)) ELSE s

\* String.prototype.trim
trim(s) == TrimEnd(TrimStart(s))

\* `!x || x.trim().length === 0`
IsBlank(s) == ~Truthy(s) \/ Len(trim(s)) = 0

RECURSIVE EscapeQuotes(_)
\* s.replace(/"/g, '\\"'): every double quote becomes backslash, double quote
EscapeQuotes(s) ==
  IF s = <<>> THEN <<>>
  ELSE (IF Head(s) = QUOTE THEN <<BACKSLASH, QUOTE>> ELSE <<Head(s)>>)
       \o EscapeQuotes(Tail(s))

\* "${...}" in a template literal: the text between two double quotes
Quoted(s) == <<QUOTE>> \o s \o <<QUOTE>>

(***************************************************************************)
(* Dates (lib/date-utils.js).  A Date made from a date-only string is UTC  *)
(* midnight of a calendar day: [y, m, d]; NaN is the invalid Date.         *)
(***************************************************************************)
Digits == {"0", "1", "2", "3", "4", "5", "6", "7", "8", "9"}

DigitVal(c) == CHOOSE n \in 0..9 : ToString(n) = c

RECURSIVE Num(_)
\* the number a run of digits denotes
Num(s) == IF s = <<>> THEN 0 ELSE 10 * Num(SubSeq(s, 1, Len(s) - 1)) + DigitVal(s[Len(s)])

\* a number written with two / four digits
Pad2(n) == <<ToString(n \div 10), ToString(n % 10)>>
Pad4(n) == <<ToString(n \div 1000), ToString((n \div 100) % 10)>> \o Pad2(n % 100)

NaN == [y |-> 0, m |-> 0, d |-> 0]

IsLeap(y) == (y % 4 = 0 /\ y % 100 # 0) \/ y % 400 = 0

DaysInMonth(y, m) ==
  IF m = 2 THEN (IF IsLeap(y) THEN 29 ELSE 28)
  ELSE IF m \in {4, 6, 9, 11} THEN 30 ELSE 31

\* ECMAScript MakeDay: a day past the end of its month runs on into the next
MakeDay(y, m, d) ==
  IF d <= DaysInMonth(y, m) THEN [y |-> y, m |-> m, d |-> d]
  ELSE IF m = 12 THEN [y |-> y + 1, m |-> 1, d |-> d - DaysInMonth(y, m)]
  ELSE [y |-> y, m |-> m + 1, d |-> d - DaysInMonth(y, m)]

\* /^\d{4}-\d{2}-\d{2}$/.test(dateStr)
dateRegex(s) ==
  /\ Len(s) = 10
  /\ \A i \in 1..10 : IF i \in {5, 8} THEN s[i] = "-" ELSE s[i] \in Digits

\* new Date(dateStr) for a string dateRegex accepts, as node (V8) parses it:
\* the month must be 1..12 and the day 1..31, whatever the month; the day
\* is then normalised by MakeDay.
NewDate(s) ==
  LET y == Num(SubSeq(s, 1, 4))
      m == Num(SubSeq(s, 6, 7))
      d == Num(SubSeq(s, 9, 10))
  IN IF m \in 1..12 /\ d \in 1..31 THEN MakeDay(y, m, d) ELSE NaN

NoMsg == <<>>

ErrDateEmpty == <<"Date cannot be empty">>
ErrDateFormat == <<"Due date must be in YYYY-MM-DD format">>
ErrDateInvalid == <<"Invalid due date provided">>

\* validateDateString: the error it throws (NoMsg when it returns) and the Date
validateDateString(dateStr) ==
  IF ~Truthy(dateStr) THEN [error |-> ErrDateEmpty, date |-> NaN]
  ELSE IF ~dateRegex(dateStr) THEN [error |-> ErrDateFormat, date |-> NaN]
  ELSE IF NewDate(dateStr) = NaN THEN [error |-> ErrDateInvalid, date |-> NaN]
  ELSE [error |-> NoMsg, date |-> NewDate(dateStr)]

PrevDay(t) ==
  IF t.d > 1 THEN [t EXCEPT !.d = t.d - 1]
  ELSE IF t.m > 1 THEN [y |-> t.y, m |-> t.m - 1, d |-> DaysInMonth(t.y, t.m - 1)]
  ELSE [y |-> t.y - 1, m |-> 12, d |-> 31]

\* getFullYear / getMonth + 1 / getDate: the fields of UTC midnight read in
\* local time, zone hours east of UTC (-12..14): west of UTC it is still the
\* day before.
LocalFields(date, zone) == IF zone < 0 THEN PrevDay(date) ELSE date

generateAppleScriptDate_ThreeLines(date, varName, zone) ==
  LET f == LocalFields(date, zone) IN
  << <<"set ", varName, " to current date">>,
     <<"set day of ", varName, " to ", ToString(f.d)>>,
     <<"set time of ", varName, " to 0">> >>

\* generateAppleScriptDate: five statements joined by "\n  "
generateAppleScriptDate(date, varName, zone) ==
  LET f == LocalFields(date, zone) IN
  << <<"set ", varName, " to current date">>,
     <<"set month of ", varName, " to ", ToString(f.m)>>,
     <<"set day of ", varName, " to ", ToString(f.d)>>,
     <<"set year of ", varName, " to ", ToString(f.y)>>,
     <<"set time of ", varName, " to 0">> >>

(***************************************************************************)
(* addTodo (index.js)                                                      *)
(***************************************************************************)
Inbox == <<"Inbox">>
Today == <<"Today">>
Anytime == <<"Anytime">>
Someday == <<"Someday">>
Upcoming == <<"Upcoming">>
Logbook == <<"Logbook">>

\* the lists listTodos and listTodosJson fetch directly
FixedLists == {Inbox, Today, Anytime, Someday, Upcoming, Logbook}

validLists_WithLogbook == <<Inbox, Today, Anytime, Someday, Upcoming, Logbook>>

\* const validLists of addTodo
validLists == <<Inbox, Today, Anytime, Someday, Upcoming>>

Includes(arr, x) == \E i \in 1..Len(arr) : arr[i] = x

ErrTitleEmpty == <<"To-do title cannot be empty">>
ErrInvalidList == <<"Invalid list. Valid lists are: ">> \o Join(validLists, <<", ">>)

TellThings == <<"tell application ", QUOTE, "Things3", QUOTE>>
EndTell == <<"end tell">>

addTodoValidate_NoTrim(title, o) ==
  IF ~Truthy(title) THEN ErrTitleEmpty
  ELSE IF Truthy(o.due) /\ validateDateString(o.due).error # NoMsg
       THEN validateDateString(o.due).error
  ELSE IF Truthy(o.list) /\ ~Includes(validLists, o.list) THEN ErrInvalidList
  ELSE NoMsg

\* the checks addTodo makes before it builds the script: the error thrown,
\* NoMsg when all pass
addTodoValidate(title, o) ==
  IF IsBlank(title) THEN ErrTitleEmpty
  ELSE IF Truthy(o.due) /\ validateDateString(o.due).error # NoMsg
       THEN validateDateString(o.due).error
  ELSE IF Truthy(o.list) /\ ~Includes(validLists, o.list) THEN ErrInvalidList
  ELSE NoMsg

\* let properties = [...]; properties.push(...)
addTodoProperties(title, o) ==
  << <<"name:">> \o Quoted(EscapeQuotes(title)) >>
  \o (IF Truthy(o.notes) THEN << <<"notes:">> \o Quoted(EscapeQuotes(o.notes)) >> ELSE <<>>)
  \o (IF Truthy(o.tags) THEN << <<"tag names:">> \o Quoted(EscapeQuotes(o.tags)) >> ELSE <<>>)

addTodoAttach_NameBeforeId(o) ==
  IF Truthy(o.list) THEN <<" at beginning of list ">> \o Quoted(o.list)
  ELSE IF Truthy(o.project)
    THEN <<" at beginning of project ">> \o Quoted(EscapeQuotes(o.project))
  ELSE IF Truthy(o.projectId)
    THEN <<" at beginning of project id ">> \o Quoted(EscapeQuotes(o.projectId))
  ELSE IF Truthy(o.areaId)
    THEN <<" at beginning of area id ">> \o Quoted(EscapeQuotes(o.areaId))
  ELSE IF Truthy(o.area)
    THEN <<" at beginning of area ">> \o Quoted(EscapeQuotes(o.area))
  ELSE <<>>

\* the if / else if chain that appends the attach clause
addTodoAttach(o) ==
  IF Truthy(o.list) THEN <<" at beginning of list ">> \o Quoted(o.list)
  ELSE IF Truthy(o.projectId)
    THEN <<" at beginning of project id ">> \o Quoted(EscapeQuotes(o.projectId))
  ELSE IF Truthy(o.project)
    THEN <<" at beginning of project ">> \o Quoted(EscapeQuotes(o.project))
  ELSE IF Truthy(o.areaId)
    THEN <<" at beginning of area id ">> \o Quoted(EscapeQuotes(o.areaId))
  ELSE IF Truthy(o.area)
    THEN <<" at beginning of area ">> \o Quoted(EscapeQuotes(o.area))
  ELSE <<>>

MakeNewToDo == "set newToDo to make new to do with properties {"
SetDueOfNew == <<"set due date of newToDo to tempDate">>

\* the script addTodo builds once its checks pass
addTodoScript(title, o, zone) ==
  << TellThings,
     <<MakeNewToDo>> \o Join(addTodoProperties(title, o), <<", ">>) \o <<"}">>
       \o addTodoAttach(o) >>
  \o (IF Truthy(o.due)
      THEN generateAppleScriptDate(validateDateString(o.due).date, "tempDate", zone)
           \o <<SetDueOfNew>>
      ELSE <<>>)
  \o <<EndTell>>

(***************************************************************************)
(* listTodos, listTodosJson (index.js)                                     *)
(***************************************************************************)
Try == <<"try">>
OnError == <<"on error">>
EndTry == <<"end try">>
TodosOf(kind) == "set todoList to to dos of " \o kind \o " "

ChainOrder == <<"project id", "project", "area id", "area">>

listTodosResolve_AreaFirst(container) ==
  IF container \in FixedLists
  THEN << <<TodosOf("list")>> \o Quoted(container) >>
  ELSE << Try, <<TodosOf("area id")>> \o Quoted(container),
          OnError, Try, <<TodosOf("area")>> \o Quoted(container),
          OnError, Try, <<TodosOf("project id")>> \o Quoted(container),
          OnError, <<TodosOf("project")>> \o Quoted(container),
          EndTry, EndTry, EndTry >>

listTodosResolve_NoFallThrough(container) ==
  IF container \in FixedLists
  THEN << <<TodosOf("list")>> \o Quoted(container) >>
  ELSE << Try, <<TodosOf("project id")>> \o Quoted(container),
          OnError, Try, <<TodosOf("project")>> \o Quoted(container),
          OnError, <<TodosOf("area id")>> \o Quoted(container),
          <<TodosOf("area")>> \o Quoted(container),
          EndTry, EndTry >>

\* the statements of listTodos that bind todoList
listTodosResolve(container) ==
  IF container \in FixedLists
  THEN << <<TodosOf("list")>> \o Quoted(container) >>
  ELSE << Try, <<TodosOf("project id")>> \o Quoted(container),
          OnError, Try, <<TodosOf("project")>> \o Quoted(container),
          OnError, Try, <<TodosOf("area id")>> \o Quoted(container),
          OnError, <<TodosOf("area")>> \o Quoted(container),
          EndTry, EndTry, EndTry >>

\* the script listTodos builds
listTodosScript(container, includeIds) ==
  <<TellThings>> \o listTodosResolve(container)
  \o (IF includeIds
      THEN << <<"set todoData to {}">>,
              <<"repeat with aTodo in todoList">>,
              <<"set end of todoData to {name:(name of aTodo), id:(id of aTodo)}">>,
              <<"end repeat">>,
              <<"return todoData">> >>
      ELSE << <<"set todoNames to {}">>,
              <<"repeat with aTodo in todoList">>,
              <<"set end of todoNames to name of aTodo">>,
              <<"end repeat">>,
              <<"return todoNames">> >>)
  \o <<EndTell>>

listTodosJsonResolve_WithIds(container) == listTodosResolve(container)

\* the statements of listTodosJson that bind todoList
listTodosJsonResolve(container) ==
  IF container \in FixedLists
  THEN << <<TodosOf("list")>> \o Quoted(container) >>
  ELSE << Try, <<TodosOf("project")>> \o Quoted(container),
          OnError, <<TodosOf("area")>> \o Quoted(container),
          EndTry >>

Required(field, expr) == <<"set todoRecord to todoRecord & {" \o field \o ":(" \o expr \o ")}">>

\* an optional property read without a try block
Optional_Unguarded(field, expr) == << Required(field, expr), <<>> >>

Optional(field, expr) ==
  << Try, Required(field, expr), OnError,
     <<"set todoRecord to todoRecord & {" \o field \o ":null}">>, EndTry, <<>> >>

\* the script listTodosJson builds
listTodosJsonScript(container) ==
  <<TellThings>> \o listTodosJsonResolve(container)
  \o << <<"set todoData to {}">>,
        <<"repeat with aTodo in todoList">>,
        <<"set todoRecord to {}">>,
        Required("id", "id of aTodo"),
        Required("name", "name of aTodo"),
        Required("notes", "notes of aTodo"),
        Required("status", "status of aTodo as string"),
        Required("tagNames", "tag names of aTodo"),
        Required("creationDate", "creation date of aTodo as string"),
        Required("modificationDate", "modification date of aTodo as string"),
        <<>>,
        <<"-- Handle optional dates">> >>
  \o Optional("dueDate", "due date of aTodo as string")
  \o Optional("activationDate", "activation date of aTodo as string")
  \o Optional("completionDate", "completion date of aTodo as string")
  \o Optional("cancellationDate", "cancellation date of aTodo as string")
  \o << <<"-- Handle optional project and area">> >>
  \o Optional("project", "name of project of aTodo")
  \o Optional("area", "name of area of aTodo")
  \o << <<"set end of todoData to todoRecord">>,
        <<"end repeat">>,
        <<"return todoData">>,
        EndTell >>

(***************************************************************************)
(* completeTodoById, updateTodo, addProject, addArea, addTag,              *)
(* showQuickEntry (index.js)                                               *)
(***************************************************************************)
ErrIdEmpty == <<"To-do ID cannot be empty">>
ErrProjectEmpty == <<"Project name cannot be empty">>
ErrAreaEmpty == <<"Area name cannot be empty">>
ErrTagEmpty == <<"Tag name cannot be empty">>

completeTodoByIdValidate(id) == IF IsBlank(id) THEN ErrIdEmpty ELSE NoMsg

completeTodoByIdScript_StatusFirst(id) ==
  << TellThings,
     <<"set aTodo to to do id ">> \o Quoted(EscapeQuotes(id)),
     <<"set status of aTodo to completed">>,
     <<"set todoName to name of aTodo">>,
     <<"return todoName">>,
     EndTell >>

completeTodoByIdScript(id) ==
  << TellThings,
     <<"set aTodo to to do id ">> \o Quoted(EscapeQuotes(id)),
     <<"set todoName to name of aTodo">>,
     <<"set status of aTodo to completed">>,
     <<"return todoName">>,
     EndTell >>

updateTodoValidate(id, o) ==
  IF IsBlank(id) THEN ErrIdEmpty
  ELSE IF Truthy(o.due) /\ validateDateString(o.due).error # NoMsg
       THEN validateDateString(o.due).error
  ELSE NoMsg

updateTodoProject(o) ==
  IF o.noProject THEN << <<"delete project of aTodo">> >>
  ELSE IF Truthy(o.projectId)
    THEN << <<"set project of aTodo to project id ">> \o Quoted(EscapeQuotes(o.projectId)) >>
  ELSE IF Truthy(o.project)
    THEN << <<"set project of aTodo to project ">> \o Quoted(EscapeQuotes(o.project)) >>
  ELSE <<>>

updateTodoArea(o) ==
  IF o.noArea THEN << <<"delete area of aTodo">> >>
  ELSE IF Truthy(o.areaId)
    THEN << <<"set area of aTodo to area id ">> \o Quoted(EscapeQuotes(o.areaId)) >>
  ELSE IF Truthy(o.area)
    THEN << <<"set area of aTodo to area ">> \o Quoted(EscapeQuotes(o.area)) >>
  ELSE <<>>

\* a script that sets the notes whether or not notes are given
updateTodoScript_AlwaysNotes(id, o, zone) ==
  << TellThings,
     <<"set aTodo to to do id ">> \o Quoted(EscapeQuotes(id)),
     <<"set todoName to name of aTodo">> >>
  \o (IF Truthy(o.title)
      THEN << <<"set name of aTodo to ">> \o Quoted(EscapeQuotes(o.title)),
              <<"set todoName to ">> \o Quoted(EscapeQuotes(o.title)) >>
      ELSE <<>>)
  \o << <<"set notes of aTodo to ">>
          \o Quoted(IF Truthy(o.notes) THEN EscapeQuotes(o.notes) ELSE <<>>) >>
  \o (IF Truthy(o.tags)
      THEN << <<"set tag names of aTodo to ">> \o Quoted(EscapeQuotes(o.tags)) >>
      ELSE <<>>)
  \o (IF Truthy(o.due)
      THEN generateAppleScriptDate(validateDateString(o.due).date, "tempDate", zone)
           \o << <<"set due date of aTodo to tempDate">> >>
      ELSE <<>>)
  \o updateTodoProject(o)
  \o updateTodoArea(o)
  \o << <<"return todoName">>, EndTell >>

updateTodoScript(id, o, zone) ==
  << TellThings,
     <<"set aTodo to to do id ">> \o Quoted(EscapeQuotes(id)),
     <<"set todoName to name of aTodo">> >>
  \o (IF Truthy(o.title)
      THEN << <<"set name of aTodo to ">> \o Quoted(EscapeQuotes(o.title)),
              <<"set todoName to ">> \o Quoted(EscapeQuotes(o.title)) >>
      ELSE <<>>)
  \o (IF Truthy(o.notes)
      THEN << <<"set notes of aTodo to ">> \o Quoted(EscapeQuotes(o.notes)) >>
      ELSE <<>>)
  \o (IF Truthy(o.tags)
      THEN << <<"set tag names of aTodo to ">> \o Quoted(EscapeQuotes(o.tags)) >>
      ELSE <<>>)
  \o (IF Truthy(o.due)
      THEN generateAppleScriptDate(validateDateString(o.due).date, "tempDate", zone)
           \o << <<"set due date of aTodo to tempDate">> >>
      ELSE <<>>)
  \o updateTodoProject(o)
  \o updateTodoArea(o)
  \o << <<"return todoName">>, EndTell >>

addProjectValidate(name) == IF IsBlank(name) THEN ErrProjectEmpty ELSE NoMsg

addProjectScript(name, o) ==
  << TellThings,
     <<"set newProject to make new project with properties {">>
       \o Join(<< <<"name:">> \o Quoted(EscapeQuotes(name)) >>
               \o (IF Truthy(o.notes)
                   THEN << <<"notes:">> \o Quoted(EscapeQuotes(o.notes)) >>
                   ELSE <<>>),
               <<", ">>)
       \o <<"}">> >>
  \o (IF Truthy(o.area)
      THEN << <<"set area of newProject to area ">> \o Quoted(EscapeQuotes(o.area)) >>
      ELSE <<>>)
  \o <<EndTell>>

addAreaValidate(name) == IF IsBlank(name) THEN ErrAreaEmpty ELSE NoMsg

addAreaScript(name) ==
  << TellThings,
     <<"make new area with properties {name:">> \o Quoted(EscapeQuotes(name)) \o <<"}">>,
     EndTell >>

addTagValidate(name) == IF IsBlank(name) THEN ErrTagEmpty ELSE NoMsg

addTagScript(name) ==
  << TellThings,
     <<"make new tag with properties {name:">> \o Quoted(EscapeQuotes(name)) \o <<"}">>,
     EndTell >>

showQuickEntryScript(o) ==
  << TellThings,
     IF Truthy(o.title) \/ Truthy(o.notes)
     THEN <<"show quick entry panel with properties {">>
          \o Join((IF Truthy(o.title) THEN << <<"name:">> \o Quoted(o.title) >> ELSE <<>>)
                  \o (IF Truthy(o.notes) THEN << <<"notes:">> \o Quoted(o.notes) >> ELSE <<>>),
                  <<", ">>)
          \o <<"}">>
     ELSE <<"show quick entry panel">>,
     EndTell >>

(***************************************************************************)
(* The host: osascript compiling and running a script against Things 3.    *)
(* Not code of this repository; it is modelled as far as the scripts above *)
(* use it.  A string literal runs from a double quote to the next double   *)
(* quote that no backslash escapes; a backslash inside a literal escapes   *)
(* the character after it.                                                 *)
(***************************************************************************)
Lit(tok) == [t |-> "lit", v |-> <<tok>>]
Str(content) == [t |-> "str", v |-> content]
SyntaxError == << [t |-> "err", v |-> <<>>] >>

RECURSIVE HostLex(_, _, _, _, _)
\* the tokens of a line: literals and the words between them
HostLex(line, i, inStr, cur, acc) ==
  IF i > Len(line) THEN (IF inStr THEN SyntaxError ELSE acc)
  ELSE IF ~inStr
    THEN IF line[i] = QUOTE THEN HostLex(line, i + 1, TRUE, <<>>, acc)
         ELSE HostLex(line, i + 1, FALSE, <<>>, Append(acc, Lit(line[i])))
  ELSE IF line[i] = QUOTE THEN HostLex(line, i + 1, FALSE, <<>>, Append(acc, Str(cur)))
  ELSE IF line[i] = BACKSLASH
    THEN IF i + 1 > Len(line) THEN SyntaxError
         ELSE HostLex(line, i + 2, TRUE, Append(cur, line[i + 1]), acc)
  ELSE HostLex(line, i + 1, TRUE, Append(cur, line[i]), acc)

Lexed(line) == HostLex(line, 1, FALSE, <<>>, <<>>)

\* tokens that can only come from the user
UserTokens == Chars \ {QUOTE}

LookupKinds == {"list", "project id", "project", "area id", "area"}

IsLookup(line) == line # <<>> /\ \E k \in LookupKinds : line[1] = TodosOf(k)

LookupKind(line) == CHOOSE k \in LookupKinds : line[1] = TodosOf(k)

\* set aTodo to to do id "..."
IsToDoById(line) == line # <<>> /\ line[1] = "set aTodo to to do id "

\* a line compiles when its literals are closed, no text of the user stands
\* outside a literal, and a lookup names its container by exactly one literal
LineCompiles(line) ==
  LET items == Lexed(line) IN
  /\ items # SyntaxError
  /\ \A i \in 1..Len(items) : items[i].t = "lit" => items[i].v[1] \notin UserTokens
  /\ (IsLookup(line) \/ IsToDoById(line)) => Len(items) = 2 /\ items[2].t = "str"

Compiles(lines) == \A i \in 1..Len(lines) : LineCompiles(lines[i])

\* whether the host resolves a reference of the kind to the name
Resolves(h, kind, name) ==
  CASE kind = "list" -> name \in FixedLists
    [] kind = "project id" -> name \in h.projectIds
    [] kind = "project" -> name \in h.projects
    [] kind = "area id" -> name \in h.areaIds
    [] kind = "area" -> name \in h.areas

RECURSIVE MatchOnError(_, _, _)
\* the "on error" line of the try block whose body starts at line j
MatchOnError(lines, j, depth) ==
  IF j > Len(lines) THEN j
  ELSE IF lines[j] = Try THEN MatchOnError(lines, j + 1, depth + 1)
  ELSE IF lines[j] = EndTry THEN MatchOnError(lines, j + 1, depth - 1)
  ELSE IF lines[j] = OnError /\ depth = 0 THEN j
  ELSE MatchOnError(lines, j + 1, depth)

RECURSIVE MatchEndTry(_, _, _)
\* the "end try" line of the try block whose handler starts at line j
MatchEndTry(lines, j, depth) ==
  IF j > Len(lines) THEN j
  ELSE IF lines[j] = Try THEN MatchEndTry(lines, j + 1, depth + 1)
  ELSE IF lines[j] = EndTry
    THEN IF depth = 0 THEN j ELSE MatchEndTry(lines, j + 1, depth - 1)
  ELSE MatchEndTry(lines, j + 1, depth)

\* the message osascript reports when a reference does not resolve
CantGet(kind, prefix) == prefix \o <<"Can't get ", kind>>

\* the to-do Things 3 holds under the id
ToDoById(h, id) == CHOOSE t \in h.todos : t.id = id

\* what the script has bound to a variable: the value of the last step that
\* bound it (<<>> before any did)
RECURSIVE Bound(_, _)
Bound(done, kinds) ==
  IF done = <<>> THEN <<>>
  ELSE IF done[Len(done)].kind \in kinds /\ done[Len(done)].ok THEN done[Len(done)].name
  ELSE Bound(SubSeq(done, 1, Len(done) - 1), kinds)

\* set name / notes / tag names of aTodo to "...": the property written
Writes ==
  [n \in {"set name of aTodo to ", "set notes of aTodo to ", "set tag names of aTodo to "}
     |-> CASE n = "set name of aTodo to " -> "set name"
           [] n = "set notes of aTodo to " -> "set notes"
           [] OTHER -> "set tag names"]

IsWrite(line) == line # <<>> /\ line[1] \in DOMAIN Writes

\* set project / area of aTodo to project [id] / area [id] "...": the
\* reference the host has to resolve
Moves ==
  [n \in {"set project of aTodo to project id ", "set project of aTodo to project ",
          "set area of aTodo to area id ", "set area of aTodo to area "}
     |-> CASE n = "set project of aTodo to project id " -> "project id"
           [] n = "set project of aTodo to project " -> "project"
           [] n = "set area of aTodo to area id " -> "area id"
           [] OTHER -> "area"]

IsMove(line) == line # <<>> /\ line[1] \in DOMAIN Moves

\* the property a move sets
MoveWrites(kind) == IF kind \in {"project id", "project"} THEN "set project" ELSE "set area"

\* the lines the host does something for that the model follows
Acts(line) ==
  \/ line \in {Try, OnError, <<"set todoName to name of aTodo">>,
               <<"set due date of aTodo to tempDate">>, <<"delete project of aTodo">>,
               <<"delete area of aTodo">>, <<"set status of aTodo to completed">>,
               <<"return todoName">>}
  \/ IsLookup(line) \/ IsToDoById(line) \/ IsWrite(line) \/ IsMove(line)
  \/ line # <<>> /\ line[1] \in {"set todoName to ", "return todoData", "return todoNames"}

\* the first line from line i on that the host does something for
Skip(lines, i) ==
  IF \E j \in i..Len(lines) : Acts(lines[j])
  THEN CHOOSE j \in i..Len(lines) : Acts(lines[j]) /\ \A k \in i..(j - 1) : ~Acts(lines[k])
  ELSE Len(lines) + 1

RECURSIVE Exec(_, _, _, _, _, _)
\* run lines from line i on; handlers: the "on error" lines of the open try
\* blocks, innermost last; done: the steps made so far; the value is what a
\* return statement hands back
Exec(lines, i, handlers, done, h, prefix) ==
  IF i > Len(lines) THEN [ok |-> TRUE, attempts |-> done, error |-> NoMsg, value |-> <<>>]
  ELSE IF ~Acts(lines[i]) THEN Exec(lines, Skip(lines, i), handlers, done, h, prefix)
  ELSE IF lines[i] = Try
    THEN Exec(lines, i + 1, Append(handlers, MatchOnError(lines, i + 1, 0)), done, h, prefix)
  ELSE IF lines[i] = OnError
    THEN Exec(lines, MatchEndTry(lines, i + 1, 0) + 1,
              SubSeq(handlers, 1, Len(handlers) - 1), done, h, prefix)
  ELSE IF IsLookup(lines[i]) \/ IsToDoById(lines[i])
    THEN LET kind == IF IsLookup(lines[i]) THEN LookupKind(lines[i]) ELSE "to do id"
             name == Lexed(lines[i])[2].v
             found == IF IsLookup(lines[i]) THEN Resolves(h, kind, name)
                      ELSE \E t \in h.todos : t.id = name
             log == Append(done, [kind |-> kind, name |-> name, ok |-> found])
         IN IF found THEN Exec(lines, i + 1, handlers, log, h, prefix)
            ELSE IF handlers # <<>>
              THEN Exec(lines, handlers[Len(handlers)] + 1,
                        SubSeq(handlers, 1, Len(handlers) - 1), log, h, prefix)
            ELSE [ok |-> FALSE, attempts |-> log, error |-> CantGet(kind, prefix),
                  value |-> <<>>]
  ELSE IF lines[i] = <<"set todoName to name of aTodo">>
    THEN Exec(lines, i + 1, handlers,
              Append(done, [kind |-> "get name",
                            name |-> ToDoById(h, Bound(done, {"to do id"})).name,
                            ok |-> TRUE]),
              h, prefix)
  ELSE IF lines[i] # <<>> /\ lines[i][1] = "set todoName to "
    THEN Exec(lines, i + 1, handlers,
              Append(done, [kind |-> "set todoName", name |-> Lexed(lines[i])[2].v,
                            ok |-> TRUE]),
              h, prefix)
  ELSE IF IsWrite(lines[i])
    THEN Once(LAMBDA d : Exec(lines, i + 1, handlers, d, h, prefix),
              Append(done, [kind |-> Writes[lines[i][1]], name |-> Lexed(lines[i])[2].v,
                            ok |-> TRUE]))
  ELSE IF lines[i] = <<"set due date of aTodo to tempDate">>
    THEN Once(LAMBDA d : Exec(lines, i + 1, handlers, d, h, prefix),
              Append(done, [kind |-> "set due date", name |-> <<"tempDate">>, ok |-> TRUE]))
  ELSE IF IsMove(lines[i])
    THEN Once(LAMBDA d :
                IF d[Len(d)].ok THEN Exec(lines, i + 1, handlers, d, h, prefix)
                ELSE [ok |-> FALSE, attempts |-> d,
                      error |-> CantGet(Moves[lines[i][1]], prefix), value |-> <<>>],
              Append(done, [kind |-> MoveWrites(Moves[lines[i][1]]),
                            name |-> Lexed(lines[i])[2].v,
                            ok |-> Resolves(h, Moves[lines[i][1]], Lexed(lines[i])[2].v)]))
  ELSE IF lines[i] \in {<<"delete project of aTodo">>, <<"delete area of aTodo">>}
    THEN Once(LAMBDA d : Exec(lines, i + 1, handlers, d, h, prefix),
              Append(done, [kind |-> lines[i][1], name |-> <<>>, ok |-> TRUE]))
  ELSE IF lines[i] = <<"set status of aTodo to completed">>
    THEN Exec(lines, i + 1, handlers,
              Append(done, [kind |-> "set status", name |-> <<"completed">>, ok |-> TRUE]),
              h, prefix)
  ELSE IF lines[i] = <<"return todoName">>
    THEN [ok |-> TRUE, attempts |-> done, error |-> NoMsg,
          value |-> Bound(done, {"get name", "set todoName"})]
  ELSE IF lines[i] # <<>> /\ lines[i][1] \in {"return todoData", "return todoNames"}
    THEN [ok |-> TRUE, attempts |-> done, error |-> NoMsg, value |-> <<>>]
  ELSE Exec(lines, i + 1, handlers, done, h, prefix)

\* the properties of a to-do a script may write
Properties ==
  {"set status", "set name", "set notes", "set tag names", "set due date",
   "set project", "set area", "delete project of aTodo", "delete area of aTodo"}

\* a host that undoes the writes of a run that fails
WritesOf_RolledBack(log) ==
  IF log # <<>> /\ ~log[Len(log)].ok THEN <<>>
  ELSE SelectSeq(log, LAMBDA e : e.kind \in Properties /\ e.ok)

\* the writes a run has made to the to-do it resolved, in order: each took
\* effect when its statement ran, whatever came after
WritesOf(log) == SelectSeq(log, LAMBDA e : e.kind \in Properties /\ e.ok)

\* the name of the to-do in Things 3 once the run is over: the last name
\* written, the name it had when no name was written
NameAfter(h, log) ==
  IF \E i \in 1..Len(WritesOf(log)) : WritesOf(log)[i].kind = "set name"
  THEN Bound(WritesOf(log), {"set name"})
  ELSE ToDoById(h, Bound(log, {"to do id"})).name

ErrSyntax == <<"syntax error">>
ErrNotRunning == <<"Application isn't running">>

\* osascript on a script: down: Things 3 cannot be reached; prefix: how the
\* host words the start of an error message
HostRun(lines, h, down, prefix) ==
  IF ~Compiles(lines)
  THEN [ok |-> FALSE, attempts |-> <<>>, error |-> ErrSyntax, value |-> <<>>]
  ELSE IF down
  THEN [ok |-> FALSE, attempts |-> <<>>, error |-> prefix \o ErrNotRunning, value |-> <<>>]
  ELSE Exec(lines, 1, <<>>, <<>>, h, prefix)

(***************************************************************************)
(* executeAppleScript (lib/applescript.js)                                 *)
(***************************************************************************)
\* whether a token of a message holds the text
TokenHas(tok, needle) ==
  \/ tok = needle
  \/ needle = "Things3" /\ tok = "Things3 got an error: "

\* String.prototype.includes on a message
includes(msg, needle) == \E i \in 1..Len(msg) : TokenHas(msg[i], needle)

MsgNotFound == <<"Item not found. Please check the name and try again.">>
MsgThingsError == <<"Things 3 error. Make sure the app is running and accessible.">>
MsgNotRunning == <<"Things 3 is not running. Please open Things 3 and try again.">>

\* the message of the Error executeAppleScript rejects with
errorMessage(msg) ==
  IF includes(msg, "not found") THEN MsgNotFound
  ELSE IF includes(msg, "Things3") \/ includes(msg, "not running") THEN MsgThingsError
  ELSE IF includes(msg, "Application isn't running") THEN MsgNotRunning
  ELSE msg

(***************************************************************************)
(* JavaScript values a script's result is parsed to                        *)
(***************************************************************************)
JsNull == [type |-> "null", items |-> <<>>]
JsUndefined == [type |-> "undefined", items |-> <<>>]
JsString(s) == [type |-> "string", items |-> s]
JsArray(xs) == [type |-> "array", items |-> xs]

\* ToBoolean: null, undefined and the empty string are falsy
JsTruthy(v) == v.type \notin {"null", "undefined"} /\ ~(v.type = "string" /\ v.items = <<>>)

normalizeList_PassThrough(res) ==
  IF ~JsTruthy(res) \/ (res.type = "array" /\ res.items = <<>>)
  THEN JsArray(<<>>)
  ELSE res

\* if (!result || (Array.isArray(result) && result.length === 0)) return [];
\* return Array.isArray(result) ? result : [];
normalizeList(res) ==
  IF ~JsTruthy(res) \/ (res.type = "array" /\ res.items = <<>>)
  THEN JsArray(<<>>)
  ELSE IF res.type = "array" THEN res ELSE JsArray(<<>>)

(***************************************************************************)
(* Times.  A Date is an instant, held as the fields of its UTC reading     *)
(* [y, m, d, h, mi, s]; a local reading has the same fields.  A zone is    *)
(* [off, dst]: off hours east of UTC in standard time; a zone with dst has *)
(* its clocks one hour ahead of that until its local clock reaches         *)
(* FallBack, when it is set back one hour.                                 *)
(***************************************************************************)
NoDate == [y |-> 0, m |-> 0, d |-> 0, h |-> 0, mi |-> 0, s |-> 0]

FallBack == [y |-> 2025, m |-> 11, d |-> 2, h |-> 2, mi |-> 0, s |-> 0]

FixedZone(off) == [off |-> off, dst |-> FALSE]

DayOf(t) == [y |-> t.y, m |-> t.m, d |-> t.d]

NextDay(day) ==
  IF day.d < DaysInMonth(day.y, day.m) THEN [day EXCEPT !.d = day.d + 1]
  ELSE IF day.m < 12 THEN [y |-> day.y, m |-> day.m + 1, d |-> 1]
  ELSE [y |-> day.y + 1, m |-> 1, d |-> 1]

RECURSIVE AddDays(_, _)
AddDays(day, n) ==
  IF n = 0 THEN day
  ELSE IF n > 0 THEN Once(NextDay, AddDays(day, n - 1))
  ELSE Once(PrevDay, AddDays(day, n + 1))

RECURSIVE RunOn(_)
\* ECMAScript MakeDay on a day of the month that may overflow: day 0 is the
\* last day of the month before, a day past the end of its month runs on
\* into the months after it
RunOn(day) ==
  IF day.d < 1 THEN PrevDay([day EXCEPT !.d = 1])
  ELSE IF day.d <= DaysInMonth(day.y, day.m) THEN day
  ELSE Once(RunOn, [y |-> IF day.m = 12 THEN day.y + 1 ELSE day.y,
                    m |-> IF day.m = 12 THEN 1 ELSE day.m + 1,
                    d |-> day.d - DaysInMonth(day.y, day.m)])

\* ECMAScript MakeTime / MakeDay / MakeDate on fields that may overflow:
\* month 1..12, day, hour, minute, second >= 0
MakeDate(y, m, d, h, mi, s) ==
  LET secs == s + 60 * mi + 3600 * h
      day == AddDays(Once(RunOn, [y |-> y, m |-> m, d |-> d]), secs \div 86400)
      rest == secs % 86400
  IN [y |-> day.y, m |-> day.m, d |-> day.d,
      h |-> rest \div 3600, mi |-> (rest % 3600) \div 60, s |-> rest % 60]

\* the reading of t on a clock k hours ahead
ShiftHours(t, k) ==
  LET day == AddDays(DayOf(t), (t.h + k) \div 24)
  IN [y |-> day.y, m |-> day.m, d |-> day.d, h |-> (t.h + k) % 24, mi |-> t.mi, s |-> t.s]

Fields(t) == <<t.y, t.m, t.d, t.h, t.mi, t.s>>

Before(a, b) ==
  \E i \in 1..6 : /\ Fields(a)[i] < Fields(b)[i]
                  /\ \A j \in 1..(i - 1) : Fields(a)[j] = Fields(b)[j]

\* ECMAScript UTC(t): the instant of a local reading; a reading the clock
\* shows twice is taken with the offset before the clock was set back
UTC(local, zone) ==
  IF zone.dst /\ Before(local, FallBack) THEN ShiftHours(local, -(zone.off + 1))
  ELSE ShiftHours(local, -zone.off)

\* ECMAScript LocalTime(t): the local reading of an instant
LocalTime(t, zone) ==
  IF zone.dst /\ Before(ShiftHours(t, zone.off + 1), FallBack)
  THEN ShiftHours(t, zone.off + 1)
  ELSE ShiftHours(t, zone.off)

\* Date.prototype.toISOString
toISOString(t) ==
  Pad4(t.y) \o <<"-">> \o Pad2(t.m) \o <<"-">> \o Pad2(t.d) \o <<"T">>
  \o Pad2(t.h) \o <<":">> \o Pad2(t.mi) \o <<":">> \o Pad2(t.s) \o <<".", "0", "0", "0", "Z">>

(***************************************************************************)
(* Date text.  Digits, " " and ":" are tokens of their own; a run of       *)
(* letters is one token.                                                   *)
(***************************************************************************)
Weekdays == <<"Sunday", "Monday", "Tuesday", "Wednesday", "Thursday", "Friday", "Saturday">>

\* const monthNames of parseAppleScriptDate
monthNames ==
  <<"January", "February", "March", "April", "May", "June",
    "July", "August", "September", "October", "November", "December">>

\* 0 for Sunday .. 6 for Saturday
DayOfWeek(day) ==
  LET t == <<0, 3, 2, 5, 0, 3, 5, 1, 4, 6, 2, 4>>
      y == IF day.m < 3 THEN day.y - 1 ELSE day.y
  IN (y + y \div 4 - y \div 100 + y \div 400 + t[day.m] + day.d) % 7

RECURSIVE NumText(_)
\* a number written without leading zeros
NumText(n) == IF n < 10 THEN <<ToString(n)>> ELSE NumText(n \div 10) \o <<ToString(n % 10)>>

\* `<date> as string` in the host: "Wednesday 6 August 2025 at 20:45:46",
\* the local reading of the instant
DisplayDate(t, zone) ==
  LET c == LocalTime(t, zone) IN
  <<Weekdays[DayOfWeek(c) + 1], " ">> \o NumText(c.d) \o <<" ", monthNames[c.m], " ">>
  \o NumText(c.y) \o <<" ", "at", " ">>
  \o NumText(c.h) \o <<":">> \o Pad2(c.mi) \o <<":">> \o Pad2(c.s)

IsWord(tok) == tok \notin Digits \cup {" ", ":"}

RECURSIVE DigitRun(_, _)
\* the digits that stand at position i and after it
DigitRun(s, i) ==
  IF i <= Len(s) /\ s[i] \in Digits THEN <<s[i]>> \o DigitRun(s, i + 1) ELSE <<>>

\* dateStr.replace(/^[A-Za-z]+ /, '')
StripWeekday(s) ==
  IF Len(s) >= 2 /\ IsWord(s[1]) /\ s[2] = " " THEN SubSeq(s, 3, Len(s)) ELSE s

\* str.replace(' at ', ' '): the first " at " becomes one blank
ReplaceAt(s) ==
  LET at == {i \in 1..(Len(s) - 2) : SubSeq(s, i, i + 2) = <<" ", "at", " ">>} IN
  IF at = {} THEN s
  ELSE LET i == CHOOSE k \in at : \A l \in at : k <= l
       IN SubSeq(s, 1, i) \o SubSeq(s, i + 3, Len(s))

\* the month a word names to the date parser of node (V8), which looks at
\* the first three letters whatever their case; 0 for any other word
KeywordMonth(w) ==
  IF \E i \in 1..12 : w = monthNames[i] THEN CHOOSE i \in 1..12 : w = monthNames[i]
  ELSE IF w \in {"Aug", "august", "AUGUST"} THEN 8
  ELSE 0

\* one turn of the legacy loop of V8's date parser over numbers, words,
\* blanks and colons; st: the position, the day numbers, the named month,
\* the time numbers read so far, whether a number was read, failure
LegacyStep(s, st) ==
  LET i == st.i IN
  IF s[i] \in Digits
    THEN LET run == DigitRun(s, i)
             n == Num(run)
             j == i + Len(run)
             expecting == \/ Len(st.time) = 1 /\ n \in 0..59
                          \/ Len(st.time) = 2 /\ n \in 0..59
                          \/ Len(st.time) = 3 /\ n \in 0..999
         IN IF j <= Len(s) /\ s[j] = ":"
            THEN IF j + 1 <= Len(s) /\ s[j + 1] = ":"
                 THEN IF st.time # <<>> THEN [st EXCEPT !.bad = TRUE]
                      ELSE [st EXCEPT !.i = j + 2, !.time = <<n, 0>>, !.num = TRUE]
                 ELSE IF Len(st.time) >= 4 THEN [st EXCEPT !.bad = TRUE]
                      ELSE [st EXCEPT !.i = j + 1, !.time = Append(st.time, n), !.num = TRUE]
            ELSE IF expecting
            THEN IF j <= Len(s) /\ s[j] # " " THEN [st EXCEPT !.bad = TRUE]
                 ELSE [st EXCEPT !.i = j,
                                 !.time = Append(st.time, n)
                                            \o [k \in 1..(3 - Len(st.time)) |-> 0],
                                 !.num = TRUE]
            ELSE IF Len(st.day) >= 3 THEN [st EXCEPT !.bad = TRUE]
                 ELSE [st EXCEPT !.i = j, !.day = Append(st.day, n), !.num = TRUE]
  ELSE IF IsWord(s[i])
    THEN IF KeywordMonth(s[i]) # 0
         THEN [st EXCEPT !.i = i + 1, !.month = KeywordMonth(s[i])]
         ELSE IF st.num \/ (i < Len(s) /\ s[i + 1] \in Digits) THEN [st EXCEPT !.bad = TRUE]
         ELSE [st EXCEPT !.i = i + 1]
  ELSE [st EXCEPT !.i = i + 1]

RECURSIVE LegacyScan(_, _)
\* the legacy loop, to the end of the string or to the failure
LegacyScan(s, st) ==
  IF st.bad \/ st.i > Len(s) THEN st
  ELSE Once(LAMBDA next : LegacyScan(s, next), LegacyStep(s, st))

\* DayComposer::Write and TimeComposer::Write on what the loop has read:
\* the local reading, or NoDate for the invalid Date
ComposeDate(st) ==
  LET comp == st.day \o [k \in 1..(3 - Len(st.day)) |-> 1]
      tm == st.time \o [k \in 1..(4 - Len(st.time)) |-> 0]
      dayFirst == comp[1] \in 1..31
      month == IF st.month # 0 THEN st.month
               ELSE IF ~dayFirst THEN comp[2] ELSE comp[1]
      day == IF st.month # 0 THEN (IF dayFirst THEN comp[1] ELSE comp[2])
             ELSE IF ~dayFirst THEN comp[3] ELSE comp[2]
      yr == IF st.month # 0 THEN (IF dayFirst THEN comp[2] ELSE comp[1])
            ELSE IF ~dayFirst THEN comp[1] ELSE comp[3]
      year == IF yr \in 0..49 THEN yr + 2000 ELSE IF yr \in 50..99 THEN yr + 1900 ELSE yr
  IN IF st.bad \/ st.day = <<>> THEN NoDate
     ELSE IF month \notin 1..12 \/ day \notin 1..31 THEN NoDate
     ELSE IF ~(tm[1] \in 0..23 /\ tm[2] \in 0..59 /\ tm[3] \in 0..59)
             /\ ~(tm[1] = 24 /\ tm[2] = 0 /\ tm[3] = 0 /\ tm[4] = 0)
       THEN NoDate
     ELSE MakeDate(year, month, day, tm[1], tm[2], tm[3])

\* new Date(str) for a string that is no ISO date: the local reading the
\* legacy parser composes, or NoDate for the invalid Date
LegacyDate(s) ==
  Once(ComposeDate,
       LegacyScan(s, [i |-> 1, day |-> <<>>, month |-> 0, time |-> <<>>,
                      num |-> FALSE, bad |-> FALSE]))

\* /(\d{1,2}) ([A-Za-z]+) (\d{4}) at (\d{1,2}):(\d{2}):(\d{2})/ tried at
\* position i with nd digits for the day and nh for the hour
MatchAt(s, i, nd, nh) ==
  LET w == i + nd + 1
      y == w + 2
      h == y + 7
      m == h + nh + 1
  IN /\ m + 4 <= Len(s)
     /\ \A k \in i..(i + nd - 1) : s[k] \in Digits
     /\ s[i + nd] = " " /\ IsWord(s[w]) /\ s[w + 1] = " "
     /\ \A k \in y..(y + 3) : s[k] \in Digits
     /\ SubSeq(s, y + 4, y + 6) = <<" ", "at", " ">>
     /\ \A k \in h..(h + nh - 1) : s[k] \in Digits
     /\ s[h + nh] = ":" /\ s[m] \in Digits /\ s[m + 1] \in Digits
     /\ s[m + 2] = ":" /\ s[m + 3] \in Digits /\ s[m + 4] \in Digits

\* dateStr.match(...): the groups of the leftmost match, day and hour as
\* long as they can be; <<>> when there is none
match(s) ==
  LET hits == {i \in 1..Len(s) : \E nd \in 1..2, nh \in 1..2 : MatchAt(s, i, nd, nh)} IN
  IF hits = {} THEN <<>>
  ELSE LET i == CHOOSE k \in hits : \A l \in hits : k <= l
           nd == IF \E nh \in 1..2 : MatchAt(s, i, 2, nh) THEN 2 ELSE 1
           nh == IF MatchAt(s, i, nd, 2) THEN 2 ELSE 1
           w == i + nd + 1
           h == w + 9
           m == h + nh + 1
       IN << SubSeq(s, i, i + nd - 1), <<s[w]>>, SubSeq(s, w + 2, w + 5),
             SubSeq(s, h, h + nh - 1), SubSeq(s, m, m + 1), SubSeq(s, m + 3, m + 4) >>

\* new Date(year, monthIndex, day, hour, minute, second): a year below 100
\* counts from 1900
NewLocalDate(year, monthIndex, day, hour, minute, second) ==
  MakeDate(IF year <= 99 THEN 1900 + year ELSE year, monthIndex + 1, day, hour, minute, second)

\* a manual parsing that takes a month by its first three letters
ManualDate_ShortNames(dateStr, zone) ==
  LET g == match(dateStr) IN
  IF g # <<>> /\ KeywordMonth(g[2][1]) # 0
  THEN UTC(NewLocalDate(Num(g[3]), KeywordMonth(g[2][1]) - 1,
                        Num(g[1]), Num(g[4]), Num(g[5]), Num(g[6])),
           zone)
  ELSE NoDate

\* the manual parsing of parseAppleScriptDate (if (match) ...)
ManualDate(dateStr, zone) ==
  LET g == match(dateStr) IN
  IF g # <<>> /\ \E k \in 1..12 : monthNames[k] = g[2][1]
  THEN UTC(NewLocalDate(Num(g[3]),
                        (CHOOSE k \in 1..12 : monthNames[k] = g[2][1]) - 1,
                        Num(g[1]), Num(g[4]), Num(g[5]), Num(g[6])),
           zone)
  ELSE NoDate

\* parseAppleScriptDate: the Date, or NoDate for null
parseAppleScriptDate(dateStr, zone) ==
  IF ~Truthy(dateStr) \/ dateStr = <<"missing", " ", "value">> THEN NoDate
  ELSE Once(LAMBDA date : IF date # NoDate THEN UTC(date, zone)
                          ELSE ManualDate(dateStr, zone),
            Once(LegacyDate, ReplaceAt(StripWeekday(dateStr))))

(***************************************************************************)
(* The result of listTodosJson (index.js, lib/date-utils.js).  A record of *)
(* the raw result is a function from its keys to strings or null.          *)
(***************************************************************************)
MissingValue == <<"missing", " ", "value">>
NullText == <<"null">>

dateFields ==
  {"creationDate", "modificationDate", "dueDate", "activationDate", "completionDate",
   "cancellationDate"}

IsSentinel(v) == v.type = "string" /\ v.items \in {MissingValue, NullText}

cleanSentinels_MissingValueOnly(todo) ==
  [k \in DOMAIN todo |->
     IF todo[k].type = "string" /\ todo[k].items = MissingValue THEN JsNull ELSE todo[k]]

\* Object.keys(cleaned).forEach(...): the sentinel strings become null
cleanSentinels(todo) == [k \in DOMAIN todo |-> IF IsSentinel(todo[k]) THEN JsNull ELSE todo[k]]

convertDateField_NullOnFailure(v, zone) ==
  IF ~JsTruthy(v) THEN JsNull
  ELSE Once(LAMBDA parsedDate : IF parsedDate # NoDate
                                THEN JsString(toISOString(parsedDate))
                                ELSE JsNull,
            parseAppleScriptDate(v.items, zone))

\* the body of dateFields.forEach(...) for the value of one field
convertDateField(v, zone) ==
  IF ~JsTruthy(v) THEN v
  ELSE Once(LAMBDA parsedDate : IF parsedDate # NoDate
                                THEN JsString(toISOString(parsedDate))
                                ELSE v,
            parseAppleScriptDate(v.items, zone))

\* convertTodoDateFields
convertTodoDateFields(todo, zone) ==
  Once(LAMBDA cleaned :
         [k \in DOMAIN todo |->
            IF k \in dateFields THEN convertDateField(cleaned[k], zone) ELSE cleaned[k]],
       cleanSentinels(todo))

RECURSIVE split(_)
\* String.prototype.split(", ")
split(s) ==
  LET at == {i \in 1..(Len(s) - 1) : s[i] = "," /\ s[i + 1] = " "} IN
  IF at = {} THEN <<s>>
  ELSE LET i == CHOOSE k \in at : \A l \in at : k <= l
       IN <<SubSeq(s, 1, i - 1)>> \o Once(split, SubSeq(s, i + 2, Len(s)))

tagsOf_NoGuard(cleaned) ==
  IF "tagNames" \in DOMAIN cleaned
  THEN JsArray(split(cleaned["tagNames"].items))
  ELSE JsArray(<<>>)

\* cleaned.tags of the callback of result.map
tagsOf(cleaned) ==
  IF "tagNames" \in DOMAIN cleaned /\ JsTruthy(cleaned["tagNames"])
  THEN JsArray(split(cleaned["tagNames"].items))
  ELSE JsArray(<<>>)

\* the callback of result.map in listTodosJson
cleanTodo(todo, zone) ==
  Once(LAMBDA cleaned :
         [k \in (DOMAIN cleaned \ {"tagNames"}) \cup {"tags"} |->
            IF k = "tags" THEN tagsOf(cleaned) ELSE cleaned[k]],
       convertTodoDateFields(todo, zone))

cleanedResult_AllOrNothing(res, zone) ==
  IF ~JsTruthy(res) \/ res.type # "array" THEN JsArray(<<>>)
  ELSE IF \E i \in 1..Len(res.items) : \E f \in dateFields \cap DOMAIN res.items[i] :
            /\ JsTruthy(cleanSentinels(res.items[i])[f])
            /\ parseAppleScriptDate(res.items[i][f].items, zone) = NoDate
    THEN JsArray(<<>>)
  ELSE JsArray([i \in 1..Len(res.items) |-> cleanTodo(res.items[i], zone)])

\* what listTodosJson returns for the result of executeAppleScript
cleanedResult(res, zone) ==
  IF ~JsTruthy(res) \/ (res.type = "array" /\ res.items = <<>>)
  THEN JsArray(<<>>)
  ELSE IF res.type = "array"
    THEN JsArray([i \in 1..Len(res.items) |-> cleanTodo(res.items[i], zone)])
  ELSE JsArray(<<>>)

(***************************************************************************)
(* The inputs of the commands                                              *)
(***************************************************************************)
FormatYMD(y, m, d) == Pad4(y) \o <<"-">> \o Pad2(m) \o <<"-">> \o Pad2(d)

DueYears == {2023, 2024}
DueMonths == {0, 1, 2, 4, 12, 13}
DueDays == {0, 1, 28, 29, 30, 31, 32}

\* strings that are not of the form YYYY-MM-DD
Malformed ==
  { <<"tomorrow">>,
    <<"2", "0", "2", "4", "-", "1", "-", "1", "5">>,
    <<"2", "4", "-", "0", "1", "-", "1", "5">>,
    <<"2", "0", "2", "4", "/", "0", "1", "/", "1", "5">>,
    <<"2", "0", "2", "4", "-", "0", "1", "-", "1", "5", "a">>,
    <<"a", "0", "2", "4", "-", "0", "1", "-", "1", "5">> }

DueInputs ==
  {FormatYMD(y, m, d) : y \in DueYears, m \in DueMonths, d \in DueDays} \cup Malformed

Zones == {-12, 0, 14}

HintVals == {undefined, <<>>, <<"a">>}
QuoteVals == {undefined, <<QUOTE, "a">>}
ListVals == {undefined, <<>>, <<"Bogus">>, <<"today">>} \cup FixedLists

NoOptions ==
  [notes |-> undefined, due |-> undefined, tags |-> undefined, list |-> undefined,
   projectId |-> undefined, project |-> undefined, areaId |-> undefined,
   area |-> undefined]

AddInputs ==
  \* the five target hints
  { [title |-> <<"a">>, zone |-> 0,
     options |-> [NoOptions EXCEPT !.list = l, !.projectId = pi, !.project = pn,
                                   !.areaId = ai, !.area = an]] :
      l \in {undefined, <<>>, Today, <<"Bogus">>},
      pi \in HintVals, pn \in HintVals, ai \in HintVals, an \in HintVals }
  \cup
  { [title |-> <<"a">>, zone |-> 0,
     options |-> [NoOptions EXCEPT !.projectId = pi, !.project = pn,
                                   !.areaId = ai, !.area = an]] :
      pi \in QuoteVals, pn \in QuoteVals, ai \in QuoteVals, an \in QuoteVals }
  \cup
  \* every list name
  { [title |-> <<"a">>, zone |-> 0,
     options |-> [NoOptions EXCEPT !.list = l, !.project = pn]] :
      l \in ListVals, pn \in {undefined, <<"a">>} }
  \cup
  \* title, notes and tags
  { [title |-> t, zone |-> 0,
     options |-> [NoOptions EXCEPT !.notes = n, !.tags = g]] :
      t \in Strs(MaxLen) \cup {undefined}, n \in Strs(1) \cup {undefined},
      g \in {undefined, <<>>, <<"a", QUOTE>>} }
  \cup
  \* due dates
  { [title |-> <<"a">>, zone |-> z, options |-> [NoOptions EXCEPT !.due = d]] :
      z \in Zones, d \in DueInputs }
  \cup
  { [title |-> <<"a">>, zone |-> 0,
     options |-> [NoOptions EXCEPT !.due = d, !.notes = n, !.tags = g, !.list = l]] :
      d \in {undefined, <<>>, FormatYMD(2024, 1, 15)}, n \in {undefined, <<"a">>},
      g \in {undefined, <<"a">>}, l \in {undefined, Today} }

Containers == Strs(MaxLen) \cup FixedLists \cup {<<"Bogus">>, <<"today">>}

NoUpdate ==
  [title |-> undefined, notes |-> undefined, tags |-> undefined, due |-> undefined,
   noProject |-> FALSE, projectId |-> undefined, project |-> undefined,
   noArea |-> FALSE, areaId |-> undefined, area |-> undefined]

\* --no-project or --no-area on the command line
Negation == <<"--no">>

\* commander on the occurrences, in the order of the command line, of an
\* option (its values) and of its negation: the last one decides, the
\* negation stores false under the name of the option
optionValue(given) ==
  IF given = <<>> THEN undefined
  ELSE IF given[Len(given)] = Negation THEN false
  ELSE given[Len(given)]

\* --project <project> and --no-project (--area <area> and --no-area) as
\* the command line may hold them
NamedOrNegated ==
  { <<>>, <<Negation>>, << <<>> >>, << <<QUOTE, "a">> >>,
    << <<QUOTE, "a">>, Negation >>, << Negation, <<QUOTE, "a">> >> }

\* the arguments of the action of the update command: project and area are
\* what the command line holds for the two options that can be negated, the
\* options what commander makes of the command line (noProject and noArea
\* are names commander stores nothing under)
UpdateInputs ==
  { [id |-> i, zone |-> 0, project |-> <<>>, area |-> <<>>,
     options |-> [NoUpdate EXCEPT !.title = t]] :
      i \in Strs(MaxLen) \cup {undefined}, t \in {undefined, <<QUOTE>>} }
  \cup
  { [id |-> <<"a">>, zone |-> z, project |-> <<>>, area |-> <<>>,
     options |-> [NoUpdate EXCEPT !.due = d]] :
      z \in Zones, d \in DueInputs }
  \cup
  { [id |-> <<"a">>, zone |-> 0, project |-> <<>>, area |-> <<>>,
     options |-> [NoUpdate EXCEPT !.title = t, !.notes = n, !.tags = g, !.due = d]] :
      t \in QuoteVals \cup {<<>>}, n \in QuoteVals \cup {<<>>}, g \in QuoteVals \cup {<<>>},
      d \in {undefined, FormatYMD(2024, 1, 15)} }
  \cup
  { [id |-> <<"a">>, zone |-> 0, project |-> pn, area |-> an,
     options |-> [NoUpdate EXCEPT !.projectId = pi, !.project = optionValue(pn),
                                  !.areaId = ai, !.area = optionValue(an)]] :
      pi \in QuoteVals, pn \in NamedOrNegated, ai \in QuoteVals, an \in NamedOrNegated }
  \cup
  \* properties and a move in one update
  { [id |-> <<"a">>, zone |-> 0, project |-> pn, area |-> an,
     options |-> [NoUpdate EXCEPT !.title = t, !.notes = n,
                                  !.project = optionValue(pn), !.area = optionValue(an)]] :
      t \in {undefined, <<"a">>, <<BACKSLASH, BACKSLASH>>}, n \in {undefined, <<"a">>},
      pn \in {<<>>, << <<"a">> >>}, an \in {<<>>, << <<"a">> >>} }

Names == Strs(MaxLen) \cup {undefined}

\* how the host may word the start of an error message
MsgPrefixes == { <<>>, <<"Things3 got an error: ">>, <<"not found">> }

\* the names under which Things 3 may hold a project or an area
HostNames == { <<"a">> }

\* the to-dos Things 3 holds
ThingsTodos == { [id |-> <<"a">>, name |-> <<"b">>] }

\* the most items a raw result holds
MaxItems == 2

\* the most tags a to-do carries
MaxTags == 2

\* a to-do as Things 3 holds it; due is NoDate when none is set, project
\* and area are <<>> when it has none
Todo(tags, creation, due) ==
  [id |-> <<"a">>, name |-> <<"b">>, notes |-> <<>>, status |-> "open", tags |-> tags,
   creation |-> creation, modification |-> creation, due |-> due,
   project |-> <<>>, area |-> <<"c">>]

\* what the script of listTodosJson reads of a to-do; none: what comes back
\* for a property that is not set
RawRecord(t, zone, none) ==
  [id |-> JsString(t.id), name |-> JsString(t.name), notes |-> JsString(t.notes),
   status |-> JsString(<<t.status>>),
   tagNames |-> JsString(Join(t.tags, <<",", " ">>)),
   creationDate |-> JsString(DisplayDate(t.creation, zone)),
   modificationDate |-> JsString(DisplayDate(t.modification, zone)),
   dueDate |-> IF t.due = NoDate THEN none ELSE JsString(DisplayDate(t.due, zone)),
   activationDate |-> none, completionDate |-> none, cancellationDate |-> none,
   project |-> IF t.project = <<>> THEN none ELSE JsString(t.project),
   area |-> IF t.area = <<>> THEN none ELSE JsString(t.area)]

NoValues == {JsString(MissingValue), JsString(NullText), JsNull}

\* names a tag may have in Things 3
TagNames ==
  { <<"a">>, <<"b">>, <<"a", " ", "b">>, <<"a", ",", "b">>, <<"a", ",", " ", "b">>,
    <<",">>, <<" ">>, NullText }

TagLists == UNION {[1..n -> TagNames] : n \in 0..MaxTags}

T0 == [y |-> 2025, m |-> 8, d |-> 6, h |-> 20, mi |-> 45, s |-> 46]

Instants ==
  { [y |-> day[1], m |-> day[2], d |-> day[3], h |-> h, mi |-> ms[1], s |-> ms[2]] :
      day \in {<<2024, 2, 29>>, <<2025, 1, 1>>, <<2025, 8, 6>>, <<2025, 11, 2>>,
               <<2025, 12, 31>>},
      h \in {0, 5, 6, 7, 20, 23},
      ms \in {<<0, 0>>, <<30, 0>>, <<45, 46>>, <<59, 59>>} }

DecodeZones == {FixedZone(-12), FixedZone(0), FixedZone(14), [off |-> -5, dst |-> TRUE]}

\* date texts that are not what the host displays
BadDates ==
  { <<>>,
    <<"tomorrow">>,
    <<"Wednesday", " ", "6", " ", "Foo", " ", "2", "0", "2", "5", " ", "at", " ",
      "2", "0", ":", "4", "5", ":", "4", "6">>,
    <<"Wednesday", " ", "6", " ", "Aug", " ", "2", "0", "2", "5", " ", "at", " ",
      "2", "0", ":", "4", "5", ":", "4", "6">>,
    <<"Wednesday", " ", "3", "2", " ", "August", " ", "2", "0", "2", "5", " ", "at", " ",
      "2", "0", ":", "4", "5", ":", "4", "6">>,
    <<"Wednesday", " ", "6", " ", "August", " ", "2", "0", "2", "5", " ", "at", " ",
      "2", "5", ":", "0", "0", ":", "0", "0">>,
    <<"Wednesday", " ", "6", " ", "August", " ", "2", "0", "2", "5">>,
    <<"6", " ", "August", " ", "2", "0", "2", "5", " ", "at", " ",
      "2", "0", ":", "4", "5", ":", "7", "5">>,
    <<"2", "0", ":", "4", "5", ":", "4", "6">> }

Drop(r, key) == [k \in DOMAIN r \ {key} |-> r[k]]

\* records the host would not build of a to-do
Garbled(r) ==
  { [r EXCEPT ![f] = JsString(bad)] : f \in {"creationDate", "dueDate"}, bad \in BadDates }
  \cup { [r EXCEPT ![f] = v] :
           f \in {"id", "name", "notes", "status", "tagNames", "project", "creationDate"},
           v \in NoValues }
  \cup { [r EXCEPT !.tagNames = JsString(<<"a", ",", " ", "b">>),
                   !.dueDate = JsString(<<"tomorrow">>), !.notes = JsString(NullText)],
         Drop(r, "tagNames"), Drop(r, "dueDate") }

\* what listTodosJson is given to decode: the to-dos of the list, the zone
\* of the process and the raw result
DecoderInputs ==
  { [kind |-> "rendered", todos |-> <<Todo(tg, T0, NoDate)>>, zone |-> FixedZone(0),
     raw |-> JsArray(<<RawRecord(Todo(tg, T0, NoDate), FixedZone(0), JsString(MissingValue))>>)] :
      tg \in TagLists }
  \cup
  { [kind |-> "rendered", todos |-> <<Todo(<<>>, c, d)>>, zone |-> z,
     raw |-> JsArray(<<RawRecord(Todo(<<>>, c, d), z, none)>>)] :
      c \in Instants, d \in {NoDate, T0}, z \in DecodeZones, none \in NoValues }
  \cup
  { [kind |-> "rendered", todos |-> ts, zone |-> z,
     raw |-> JsArray([i \in 1..Len(ts) |-> RawRecord(ts[i], z, JsNull)])] :
      ts \in UNION {[1..n -> {Todo(<< <<"a">> >>, T0, NoDate), Todo(<< <<"a">>, <<"b">> >>, FallBack, T0)}] :
                      n \in 0..MaxItems},
      z \in {FixedZone(0), FixedZone(14)} }
  \cup
  UNION { { [kind |-> "garbled", todos |-> <<>>, zone |-> z, raw |-> JsArray(<<r>> \o rest)] :
              r \in Garbled(RawRecord(Todo(<< <<"a">>, <<"b">> >>, T0, T0), z, JsNull)),
              rest \in {<<>>, <<RawRecord(Todo(<< <<"a">> >>, T0, NoDate), z, JsNull)>>} } :
          z \in DecodeZones }
  \cup
  { [kind |-> "garbled", todos |-> <<>>, zone |-> FixedZone(0),
     raw |-> JsArray(<<RawRecord(Todo(<< <<"a">> >>, T0, NoDate), FixedZone(0), JsNull), r>>)] :
      r \in Garbled(RawRecord(Todo(<< <<"a">>, <<"b">> >>, T0, T0), FixedZone(0), JsNull)) }

\* an item of the raw result of a list command
RawItem(o, a, i) ==
  IF o = "listTodosJson"
  THEN (IF i % 2 = 1
        THEN RawRecord(Todo(<< <<"a">>, <<"b">> >>, T0, NoDate), FixedZone(0), JsString(MissingValue))
        ELSE [RawRecord(Todo(<<>>, T0, T0), FixedZone(0), JsNull)
                EXCEPT !.dueDate = JsString(<<"tomorrow">>)])
  ELSE IF o \in {"listTodos", "listProjects", "listAreas"} /\ a.includeIds
  THEN [name |-> JsString(<<"b">>), id |-> JsString(<<"a">>)]
  ELSE JsString(<<"b">>)

\* what executeAppleScript may resolve a list command with: nothing, a
\* string, or an array of 0..MaxItems items
RawResults(o, a) ==
  <<JsNull, JsUndefined, JsString(<<>>), JsString(<<"b">>)>>
  \o [n \in 1..(MaxItems + 1) |-> JsArray([i \in 1..(n - 1) |-> RawItem(o, a, i)])]

(***************************************************************************)
(* The commands.  One invocation of the program runs one command: it       *)
(* checks its arguments, builds the script, calls executeAppleScript once  *)
(* and settles when osascript calls back.                                  *)
(***************************************************************************)
NoOutcome == [kind |-> "none", error |-> NoMsg, value |-> JsNull]
Rejected(msg) == [kind |-> "error", error |-> msg, value |-> JsNull]
Resolved(v) == [kind |-> "value", error |-> NoMsg, value |-> v]

\* a command throws err before it builds anything
Throw(o, a, zone, err) ==
  /\ pc' = "done" /\ op' = o /\ args' = a /\ tz' = zone
  /\ script' = <<>> /\ calls' = 0 /\ attempts' = <<>> /\ hostErr' = NoMsg
  /\ result' = JsNull
  /\ outcome' = Rejected(err)
  /\ UNCHANGED host

\* a call that is made a second time
executeAppleScript_Retry(o, a, zone, scr) ==
  /\ pc' = "called" /\ op' = o /\ args' = a /\ tz' = zone
  /\ script' = scr /\ calls' = calls + 2 /\ attempts' = <<>> /\ hostErr' = NoMsg
  /\ result' = JsNull
  /\ outcome' = NoOutcome
  /\ UNCHANGED host

\* return executeAppleScript(script) / await executeAppleScript(script)
executeAppleScript(o, a, zone, scr) ==
  /\ pc' = "called" /\ op' = o /\ args' = a /\ tz' = zone
  /\ script' = scr /\ calls' = calls + 1 /\ attempts' = <<>> /\ hostErr' = NoMsg
  /\ result' = JsNull
  /\ outcome' = NoOutcome
  /\ UNCHANGED host

addTodo ==
  /\ pc = "idle"
  /\ \E a \in AddInputs :
       IF addTodoValidate(a.title, a.options) # NoMsg
       THEN Throw("addTodo", a, a.zone, addTodoValidate(a.title, a.options))
       ELSE executeAppleScript("addTodo", a, a.zone,
                               addTodoScript(a.title, a.options, a.zone))

listTodos ==
  /\ pc = "idle"
  /\ \E c \in Containers, ids \in BOOLEAN :
       executeAppleScript("listTodos", [container |-> c, includeIds |-> ids], 0,
                          listTodosScript(c, ids))

listTodosJson ==
  /\ pc = "idle"
  /\ \E c \in Containers :
       executeAppleScript("listTodosJson", [container |-> c], 0, listTodosJsonScript(c))

completeTodoById ==
  /\ pc = "idle"
  /\ \E i \in Names :
       IF completeTodoByIdValidate(i) # NoMsg
       THEN Throw("completeTodoById", [id |-> i], 0, completeTodoByIdValidate(i))
       ELSE executeAppleScript("completeTodoById", [id |-> i], 0, completeTodoByIdScript(i))

updateTodo ==
  /\ pc = "idle"
  /\ \E a \in UpdateInputs :
       IF updateTodoValidate(a.id, a.options) # NoMsg
       THEN Throw("updateTodo", a, a.zone, updateTodoValidate(a.id, a.options))
       ELSE executeAppleScript("updateTodo", a, a.zone,
                               updateTodoScript(a.id, a.options, a.zone))

addProject ==
  /\ pc = "idle"
  /\ \E n \in Names, nt \in QuoteVals, ar \in QuoteVals :
       LET a == [name |-> n, options |-> [notes |-> nt, area |-> ar]] IN
       IF addProjectValidate(n) # NoMsg
       THEN Throw("addProject", a, 0, addProjectValidate(n))
       ELSE executeAppleScript("addProject", a, 0, addProjectScript(n, a.options))

addArea ==
  /\ pc = "idle"
  /\ \E n \in Names :
       IF addAreaValidate(n) # NoMsg
       THEN Throw("addArea", [name |-> n], 0, addAreaValidate(n))
       ELSE executeAppleScript("addArea", [name |-> n], 0, addAreaScript(n))

addTag ==
  /\ pc = "idle"
  /\ \E n \in Names :
       IF addTagValidate(n) # NoMsg
       THEN Throw("addTag", [name |-> n], 0, addTagValidate(n))
       ELSE executeAppleScript("addTag", [name |-> n], 0, addTagScript(n))

showQuickEntry ==
  /\ pc = "idle"
  /\ \E t \in Names, n \in QuoteVals :
       executeAppleScript("showQuickEntry", [options |-> [title |-> t, notes |-> n]], 0,
                          showQuickEntryScript([title |-> t, notes |-> n]))

listProjectsScript(includeIds) ==
  << TellThings, <<"set projectList to projects">> >>
  \o (IF includeIds
      THEN << <<"set projectData to {}">>,
              <<"repeat with aProject in projectList">>,
              <<"set end of projectData to {name:(name of aProject), id:(id of aProject)}">>,
              <<"end repeat">>,
              <<"return projectData">> >>
      ELSE << <<"set projectNames to {}">>,
              <<"repeat with aProject in projectList">>,
              <<"set end of projectNames to name of aProject">>,
              <<"end repeat">>,
              <<"return projectNames">> >>)
  \o <<EndTell>>

listAreasScript(includeIds) ==
  << TellThings, <<"set areaList to areas">> >>
  \o (IF includeIds
      THEN << <<"set areaData to {}">>,
              <<"repeat with anArea in areaList">>,
              <<"set end of areaData to {name:(name of anArea), id:(id of anArea)}">>,
              <<"end repeat">>,
              <<"return areaData">> >>
      ELSE << <<"set areaNames to {}">>,
              <<"repeat with anArea in areaList">>,
              <<"set end of areaNames to name of anArea">>,
              <<"end repeat">>,
              <<"return areaNames">> >>)
  \o <<EndTell>>

listTagsScript ==
  << TellThings,
     <<"set tagList to tags">>,
     <<"set tagNames to {}">>,
     <<"repeat with aTag in tagList">>,
     <<"set end of tagNames to name of aTag">>,
     <<"end repeat">>,
     <<"return tagNames">>,
     EndTell >>

listProjects ==
  /\ pc = "idle"
  /\ \E ids \in BOOLEAN :
       executeAppleScript("listProjects", [includeIds |-> ids], 0, listProjectsScript(ids))

listAreas ==
  /\ pc = "idle"
  /\ \E ids \in BOOLEAN :
       executeAppleScript("listAreas", [includeIds |-> ids], 0, listAreasScript(ids))

listTags ==
  /\ pc = "idle"
  /\ executeAppleScript("listTags", <<>>, 0, listTagsScript)

ListOps == {"listTodos", "listTodosJson"}

\* the commands that return a listing
Listing == {"listTodos", "listTodosJson", "listProjects", "listAreas", "listTags"}

\* osascript calls back: the promise of executeAppleScript settles and the
\* command returns what it makes of the result
osascriptCallback ==
  /\ pc = "called"
  /\ \E down \in BOOLEAN, prefix \in MsgPrefixes :
       LET r == HostRun(script, host, down, prefix) IN
       /\ attempts' = r.attempts
       /\ hostErr' = r.error
       /\ IF ~r.ok
          THEN /\ result' = JsNull
               /\ outcome' = Rejected(errorMessage(r.error))
          ELSE \E i \in 1..(IF op \in Listing THEN Len(RawResults(op, args)) ELSE 1) :
                 LET res == IF op \in Listing THEN RawResults(op, args)[i]
                            ELSE IF op \in {"completeTodoById", "updateTodo"}
                              THEN JsString(r.value)
                            ELSE JsNull
                 IN /\ result' = res
                    /\ outcome' = IF op = "listTodosJson"
                                     THEN Resolved(cleanedResult(res, FixedZone(tz)))
                                   ELSE IF op \in Listing THEN Resolved(normalizeList(res))
                                   ELSE Resolved(res)
  /\ pc' = "done"
  /\ UNCHANGED <<op, args, tz, script, calls, host>>

\* the process ends; the next invocation starts afresh
Exit ==
  /\ pc = "done"
  /\ pc' = "idle" /\ op' = "none" /\ args' = <<>> /\ tz' = 0
  /\ script' = <<>> /\ calls' = 0 /\ attempts' = <<>> /\ hostErr' = NoMsg
  /\ result' = JsNull
  /\ outcome' = NoOutcome
  /\ UNCHANGED host

Init ==
  /\ pc = "idle" /\ op = "none" /\ args = <<>> /\ tz = 0
  /\ script = <<>> /\ calls = 0 /\ attempts = <<>> /\ hostErr = NoMsg
  /\ result = JsNull
  /\ outcome = NoOutcome
  /\ host \in [projectIds : SUBSET HostNames, projects : SUBSET HostNames,
               areaIds : SUBSET HostNames, areas : SUBSET HostNames,
               todos : {ThingsTodos}]

Next ==
  \/ addTodo
  \/ listTodos
  \/ listTodosJson
  \/ completeTodoById
  \/ updateTodo
  \/ addProject
  \/ addArea
  \/ addTag
  \/ showQuickEntry
  \/ listProjects
  \/ listAreas
  \/ listTags
  \/ osascriptCallback
  \/ Exit

Spec == Init /\ [][Next]_vars

(***************************************************************************)
(* The decoding of a listing on its own: listTodosJson from the moment     *)
(* executeAppleScript has resolved, over the to-dos a list may hold and    *)
(* the records a result may carry.                                         *)
(***************************************************************************)
DecoderInit ==
  /\ pc = "called" /\ op = "listTodosJson" /\ script = <<>> /\ calls = 1
  /\ attempts = <<>> /\ hostErr = NoMsg /\ outcome = NoOutcome
  /\ \E inp \in DecoderInputs :
       /\ args = [container |-> Today, kind |-> inp.kind]
       /\ host = [todos |-> inp.todos]
       /\ tz = inp.zone
       /\ result = inp.raw

\* const cleanedResult = ...; return cleanedResult
decodeResult ==
  /\ pc = "called"
  /\ pc' = "done"
  /\ outcome' = Resolved(cleanedResult(result, tz))
  /\ UNCHANGED <<op, args, tz, script, calls, attempts, hostErr, result, host>>

DecoderNext == decodeResult

DecoderSpec == DecoderInit /\ [][DecoderNext]_vars

(***************************************************************************)
(* The host running the script of listTodosJson statement by statement     *)
(* over the to-dos of the list.  Reading a property of a to-do may fail in *)
(* the host; a failure inside a try block goes on after its "on error", a  *)
(* failure outside of one ends the script with an error.                   *)
(***************************************************************************)
\* what the script reads for each field of the record
Reading ==
  [id |-> "id of aTodo", name |-> "name of aTodo", notes |-> "notes of aTodo",
   status |-> "status of aTodo as string", tagNames |-> "tag names of aTodo",
   creationDate |-> "creation date of aTodo as string",
   modificationDate |-> "modification date of aTodo as string",
   dueDate |-> "due date of aTodo as string",
   activationDate |-> "activation date of aTodo as string",
   completionDate |-> "completion date of aTodo as string",
   cancellationDate |-> "cancellation date of aTodo as string",
   project |-> "name of project of aTodo", area |-> "name of area of aTodo"]

IsRead(line) == \E f \in DOMAIN Reading : line = Required(f, Reading[f])
ReadField(line) == CHOOSE f \in DOMAIN Reading : line = Required(f, Reading[f])

NullLine(f) == <<"set todoRecord to todoRecord & {" \o f \o ":null}">>
IsNullLine(line) == \E f \in DOMAIN Reading : line = NullLine(f)
NullField(line) == CHOOSE f \in DOMAIN Reading : line = NullLine(f)

\* what a read that succeeds gives
ReadValue(f) ==
  IF f \in dateFields THEN JsString(DisplayDate(T0, FixedZone(0)))
  ELSE IF f = "status" THEN JsString(<<"open">>)
  ELSE IF f = "id" THEN JsString(<<"a">>)
  ELSE JsString(<<"b">>)

\* todoRecord & {f:v}
With(r, f, v) == [k \in DOMAIN r \cup {f} |-> IF k = f THEN v ELSE r[k]]

EmptyRecord == [k \in {} |-> JsNull]

\* the properties whose read may fail for a to-do of the list: none, any
\* one, or some at once
Failing ==
  {{}} \cup {{f} : f \in DOMAIN Reading}
  \cup {{"dueDate", "project"}, {"activationDate", "completionDate", "cancellationDate", "area"},
        {"dueDate", "notes"}}

RecordInit ==
  /\ pc = "called" /\ op = "listTodosJson" /\ args = [container |-> Today] /\ tz = 0
  /\ script = listTodosJsonScript(Today) /\ calls = 1
  /\ attempts = <<>> /\ hostErr = NoMsg /\ outcome = NoOutcome /\ result = JsNull
  /\ \E ts \in UNION {[1..n -> Failing] : n \in 0..MaxItems} :
       host = [todos |-> ts, at |-> 1, aTodo |-> 0, todoRecord |-> EmptyRecord,
               todoData |-> <<>>, handlers |-> <<>>]

\* the statement the host is at
Line == script[host.at]
At(line) == pc = "called" /\ host.at <= Len(script) /\ Line = line

LineOf(line) == CHOOSE i \in 1..Len(script) : script[i] = line

Goes(h) ==
  /\ host' = h
  /\ UNCHANGED <<pc, op, args, tz, script, calls, attempts, hostErr, result, outcome>>

\* tell, the binding of todoList and todoData, comments, blank lines, end try
hostPlain ==
  /\ pc = "called" /\ host.at <= Len(script)
  /\ \/ Line \in {TellThings, <<"set todoData to {}">>, <<>>, EndTry,
                  <<"-- Handle optional dates">>, <<"-- Handle optional project and area">>}
     \/ IsLookup(Line)
  /\ Goes([host EXCEPT !.at = @ + 1])

\* repeat with aTodo in todoList
hostRepeat ==
  /\ At(<<"repeat with aTodo in todoList">>)
  /\ Goes(IF host.aTodo < Len(host.todos)
          THEN [host EXCEPT !.at = @ + 1, !.aTodo = @ + 1]
          ELSE [host EXCEPT !.at = LineOf(<<"end repeat">>) + 1])

\* end repeat
hostEndRepeat ==
  /\ At(<<"end repeat">>)
  /\ Goes([host EXCEPT !.at = LineOf(<<"repeat with aTodo in todoList">>)])

\* set todoRecord to {}
hostNewRecord ==
  /\ At(<<"set todoRecord to {}">>)
  /\ Goes([host EXCEPT !.at = @ + 1, !.todoRecord = EmptyRecord])

\* try
hostTry ==
  /\ At(Try)
  /\ Goes([host EXCEPT !.at = @ + 1,
                       !.handlers = Append(@, MatchOnError(script, host.at + 1, 0))])

\* on error, reached when the body of the try block went through
hostOnError ==
  /\ At(OnError)
  /\ Goes([host EXCEPT !.at = MatchEndTry(script, host.at + 1, 0) + 1,
                       !.handlers = SubSeq(@, 1, Len(@) - 1)])

\* set todoRecord to todoRecord & {<field>:(<property> of aTodo)}
hostRead ==
  /\ pc = "called" /\ host.at <= Len(script) /\ IsRead(Line)
  /\ LET f == ReadField(Line) IN
     IF f \notin host.todos[host.aTodo]
     THEN Goes([host EXCEPT !.at = @ + 1, !.todoRecord = With(@, f, ReadValue(f))])
     ELSE IF host.handlers # <<>>
     THEN Goes([host EXCEPT !.at = host.handlers[Len(host.handlers)] + 1,
                            !.handlers = SubSeq(@, 1, Len(@) - 1)])
     ELSE \E prefix \in MsgPrefixes :
            /\ pc' = "done"
            /\ hostErr' = CantGet(f, prefix)
            /\ outcome' = Rejected(errorMessage(CantGet(f, prefix)))
            /\ UNCHANGED <<op, args, tz, script, calls, attempts, result, host>>

\* set todoRecord to todoRecord & {<field>:null}
hostNull ==
  /\ pc = "called" /\ host.at <= Len(script) /\ IsNullLine(Line)
  /\ Goes([host EXCEPT !.at = @ + 1, !.todoRecord = With(@, NullField(Line), JsNull)])

\* set end of todoData to todoRecord
hostAppend ==
  /\ At(<<"set end of todoData to todoRecord">>)
  /\ Goes([host EXCEPT !.at = @ + 1, !.todoData = Append(@, host.todoRecord)])

\* return todoData: executeAppleScript resolves and listTodosJson cleans
hostReturn ==
  /\ At(<<"return todoData">>)
  /\ pc' = "done"
  /\ result' = JsArray(host.todoData)
  /\ outcome' = Resolved(cleanedResult(JsArray(host.todoData), FixedZone(tz)))
  /\ UNCHANGED <<op, args, tz, script, calls, attempts, hostErr, host>>

RecordNext ==
  \/ hostPlain
  \/ hostRepeat
  \/ hostEndRepeat
  \/ hostNewRecord
  \/ hostTry
  \/ hostOnError
  \/ hostRead
  \/ hostNull
  \/ hostAppend
  \/ hostReturn

RecordSpec == RecordInit /\ [][RecordNext]_vars

(***************************************************************************)
(* parseAppleScriptDate on its own (lib/date-utils.js exports it): a text  *)
(* and the zone of the process go in, a Date or null comes out.            *)
(***************************************************************************)
\* texts the generic parse refuses: some the manual parsing reads, some not
FallbackTexts ==
  { <<"Wednesday", " ", "3", "2", " ", m, " ", "2", "0", "2", "5", " ", "at", " ",
      "2", "0", ":", "4", "5", ":", "4", "6">> :
      m \in {"August", "august", "AUGUST", "Aug", "Sept", "December"} }

ParseTexts ==
  {undefined, <<>>, MissingValue, NullText} \cup BadDates \cup FallbackTexts
  \cup {DisplayDate(t, z) : t \in Instants, z \in DecodeZones}

ParseInit ==
  /\ pc = "called" /\ op = "parseAppleScriptDate" /\ script = <<>> /\ calls = 0
  /\ attempts = <<>> /\ hostErr = NoMsg /\ outcome = NoOutcome /\ result = JsNull
  /\ host = <<>>
  /\ \E s \in ParseTexts, z \in DecodeZones :
       /\ args = [dateStr |-> s]
       /\ tz = z

\* return date / return new Date(...) / return null
parseDate ==
  /\ pc = "called" /\ op = "parseAppleScriptDate"
  /\ pc' = "done"
  /\ outcome' = Resolved(parseAppleScriptDate(args.dateStr, tz))
  /\ UNCHANGED <<op, args, tz, script, calls, attempts, hostErr, result, host>>

ParseNext == parseDate

ParseSpec == ParseInit /\ [][ParseNext]_vars

(***************************************************************************)
(* The host running the statements of generateAppleScriptDate on their     *)
(* own: the temporary starts as the host's current date and each statement *)
(* sets one of its parts.  The host keeps a date a date: a day past the end *)
(* of its month runs on into the month after.                              *)
(***************************************************************************)
\* the number a statement writes
NumberOf(tok) == CHOOSE n \in 0..9999 : ToString(n) = tok

NoTemp == [day |-> NaN, time |-> 0]

\* what the host's clock may show when the script runs
Nows ==
  { [day |-> [y |-> 2023, m |-> 12, d |-> 31], time |-> 86399],
    [day |-> [y |-> 2023, m |-> 6, d |-> 15], time |-> 7200],
    [day |-> [y |-> 2024, m |-> 1, d |-> 15], time |-> 0],
    [day |-> [y |-> 2024, m |-> 1, d |-> 31], time |-> 43200],
    [day |-> [y |-> 2024, m |-> 2, d |-> 29], time |-> 3600] }

ValidDues == {d \in DueInputs : validateDateString(d).error = NoMsg}

\* set month of / set day of / set year of <date> to n, in the host
SetPart(t, part, n) ==
  [t EXCEPT !.day = RunOn(IF part = "month" THEN [t.day EXCEPT !.m = n]
                          ELSE IF part = "day" THEN [t.day EXCEPT !.d = n]
                          ELSE [t.day EXCEPT !.y = n])]

EncodeInit ==
  /\ pc = "called" /\ op = "generateAppleScriptDate" /\ calls = 1
  /\ attempts = <<>> /\ hostErr = NoMsg /\ outcome = NoOutcome /\ result = JsNull
  /\ \E due \in ValidDues, zone \in Zones, now \in Nows :
       /\ args = [due |-> due, date |-> validateDateString(due).date]
       /\ tz = zone
       /\ script = generateAppleScriptDate(validateDateString(due).date, "tempDate", zone)
       /\ host = [now |-> now, tempDate |-> NoTemp]

\* the statement the host runs next
Statement == script[Len(attempts) + 1]

Ran(kind, tok, temp) ==
  /\ attempts' = Append(attempts, [kind |-> kind, name |-> <<tok>>])
  /\ host' = [host EXCEPT !.tempDate = temp]
  /\ pc' = IF Len(attempts) + 1 = Len(script) THEN "done" ELSE "called"
  /\ UNCHANGED <<op, args, tz, script, calls, hostErr, result, outcome>>

Runs(head) == pc = "called" /\ Len(attempts) < Len(script) /\ Statement[1] = head

\* set tempDate to current date
setToCurrentDate ==
  /\ Runs("set ") /\ Statement[3] = " to current date"
  /\ Ran("current date", Statement[2], host.now)

\* set month of tempDate to <month>
setMonthOf ==
  /\ Runs("set month of ")
  /\ Ran("set month", Statement[4], SetPart(host.tempDate, "month", NumberOf(Statement[4])))

\* set day of tempDate to <day>
setDayOf ==
  /\ Runs("set day of ")
  /\ Ran("set day", Statement[4], SetPart(host.tempDate, "day", NumberOf(Statement[4])))

\* set year of tempDate to <year>
setYearOf ==
  /\ Runs("set year of ")
  /\ Ran("set year", Statement[4], SetPart(host.tempDate, "year", NumberOf(Statement[4])))

\* set time of tempDate to 0
setTimeOf ==
  /\ Runs("set time of ")
  /\ Ran("set time", Statement[3], [host.tempDate EXCEPT !.time = 0])

EncodeNext ==
  \/ setToCurrentDate
  \/ setMonthOf
  \/ setDayOf
  \/ setYearOf
  \/ setTimeOf

EncodeSpec == EncodeInit /\ [][EncodeNext]_vars

(***************************************************************************)
(* The alternate implementation (index.js with the date handling inline,   *)
(* src/unnamed/part_000).  It calls the same executeAppleScript; its       *)
(* commands are modelled under the names of the source with the prefix     *)
(* alt.                                                                    *)
(***************************************************************************)
WeekdayAbbr == <<"Sun", "Mon", "Tue", "Wed", "Thu", "Fri", "Sat">>
MonthAbbr ==
  <<"Jan", "Feb", "Mar", "Apr", "May", "Jun", "Jul", "Aug", "Sep", "Oct", "Nov", "Dec">>

\* Date.prototype.toDateString: "Mon Jan 15 2024", the local reading of
\* the date, zone hours east of UTC
toDateString(date, zone) ==
  LET f == LocalFields(date, zone) IN
  <<WeekdayAbbr[DayOfWeek(f) + 1], " ", MonthAbbr[f.m], " ">> \o Pad2(f.d)
  \o <<" ">> \o Pad4(f.y)

\* the checks of the due date that addTodo and updateTodo make inline
altDueError(due) ==
  IF ~Truthy(due) THEN NoMsg
  ELSE IF ~dateRegex(due) THEN ErrDateFormat
  ELSE IF NewDate(due) = NaN THEN ErrDateInvalid
  ELSE NoMsg

\* the checks addTodo makes before it builds the script
altAddTodoValidate(title, o) ==
  IF ~Truthy(title) \/ Len(trim(title)) = 0 THEN ErrTitleEmpty
  ELSE IF altDueError(o.due) # NoMsg THEN altDueError(o.due)
  ELSE IF Truthy(o.list)
          /\ ~Includes(<<Inbox, Today, Anytime, Someday, Upcoming>>, o.list)
    THEN <<"Invalid list. Valid lists are: ">>
         \o Join(<<Inbox, Today, Anytime, Someday, Upcoming>>, <<", ">>)
  ELSE NoMsg

\* let properties = [...]; properties.push(...): the due date is a property
altAddTodoProperties(title, o, zone) ==
  << <<"name:">> \o Quoted(EscapeQuotes(title)) >>
  \o (IF Truthy(o.notes) THEN << <<"notes:">> \o Quoted(EscapeQuotes(o.notes)) >> ELSE <<>>)
  \o (IF Truthy(o.due)
      THEN << <<"due date:date ">> \o Quoted(toDateString(NewDate(o.due), zone)) >>
      ELSE <<>>)
  \o (IF Truthy(o.tags) THEN << <<"tag names:">> \o Quoted(EscapeQuotes(o.tags)) >> ELSE <<>>)

\* the if / else if chain that appends the attach clause
altAddTodoAttach(o) ==
  IF Truthy(o.list) THEN <<" at beginning of list ">> \o Quoted(o.list)
  ELSE IF Truthy(o.projectId)
    THEN <<" at beginning of project id ">> \o Quoted(EscapeQuotes(o.projectId))
  ELSE IF Truthy(o.project)
    THEN <<" at beginning of project ">> \o Quoted(EscapeQuotes(o.project))
  ELSE IF Truthy(o.areaId)
    THEN <<" at beginning of area id ">> \o Quoted(EscapeQuotes(o.areaId))
  ELSE IF Truthy(o.area)
    THEN <<" at beginning of area ">> \o Quoted(EscapeQuotes(o.area))
  ELSE <<>>

\* the script addTodo builds once its checks pass
altAddTodoScript(title, o, zone) ==
  << <<"tell application ", QUOTE, "Things3", QUOTE>>,
     <<"set newToDo to make new to do with properties {">>
       \o Join(altAddTodoProperties(title, o, zone), <<", ">>) \o <<"}">>
       \o altAddTodoAttach(o),
     <<"end tell">> >>

\* the script listTodos builds
altListTodosScript(container, includeIds) ==
  << <<"tell application ", QUOTE, "Things3", QUOTE>> >>
  \o (IF Includes(<<Inbox, Today, Anytime, Someday, Upcoming, Logbook>>, container)
      THEN << <<"set todoList to to dos of list ">> \o Quoted(container) >>
      ELSE << <<"try">>,
              <<"set todoList to to dos of project id ">> \o Quoted(container),
              <<"on error">>,
              <<"try">>,
              <<"set todoList to to dos of project ">> \o Quoted(container),
              <<"on error">>,
              <<"try">>,
              <<"set todoList to to dos of area id ">> \o Quoted(container),
              <<"on error">>,
              <<"set todoList to to dos of area ">> \o Quoted(container),
              <<"end try">>, <<"end try">>, <<"end try">> >>)
  \o (IF includeIds
      THEN << <<"set todoData to {}">>,
              <<"repeat with aTodo in todoList">>,
              <<"set end of todoData to {name:(name of aTodo), id:(id of aTodo)}">>,
              <<"end repeat">>,
              <<"return todoData">> >>
      ELSE << <<"set todoNames to {}">>,
              <<"repeat with aTodo in todoList">>,
              <<"set end of todoNames to name of aTodo">>,
              <<"end repeat">>,
              <<"return todoNames">> >>)
  \o << <<"end tell">> >>

\* set todoRecord to todoRecord & {field:(expr)}
altRead(field, expr) == <<"set todoRecord to todoRecord & {" \o field \o ":(" \o expr \o ")}">>

\* try / the read / on error / {field:null} / end try / an empty line
altTryRead(field, expr) ==
  << <<"try">>, altRead(field, expr), <<"on error">>,
     <<"set todoRecord to todoRecord & {" \o field \o ":null}">>, <<"end try">>, <<>> >>

\* the script listTodosJson builds
altListTodosJsonScript(container) ==
  << <<"tell application ", QUOTE, "Things3", QUOTE>> >>
  \o (IF Includes(<<Inbox, Today, Anytime, Someday, Upcoming, Logbook>>, container)
      THEN << <<"set todoList to to dos of list ">> \o Quoted(container) >>
      ELSE << <<"try">>,
              <<"set todoList to to dos of project ">> \o Quoted(container),
              <<"on error">>,
              <<"set todoList to to dos of area ">> \o Quoted(container),
              <<"end try">> >>)
  \o << <<"set todoData to {}">>,
        <<"repeat with aTodo in todoList">>,
        <<"set todoRecord to {}">>,
        altRead("id", "id of aTodo"),
        altRead("name", "name of aTodo"),
        altRead("notes", "notes of aTodo"),
        altRead("status", "status of aTodo as string"),
        altRead("tagNames", "tag names of aTodo"),
        altRead("creationDate", "creation date of aTodo as string"),
        altRead("modificationDate", "modification date of aTodo as string"),
        <<>>,
        <<"-- Handle optional dates">> >>
  \o altTryRead("dueDate", "due date of aTodo as string")
  \o altTryRead("activationDate", "activation date of aTodo as string")
  \o altTryRead("completionDate", "completion date of aTodo as string")
  \o altTryRead("cancellationDate", "cancellation date of aTodo as string")
  \o << <<"-- Handle optional project and area">> >>
  \o altTryRead("project", "name of project of aTodo")
  \o altTryRead("area", "name of area of aTodo")
  \o << <<"set end of todoData to todoRecord">>,
        <<"end repeat">>,
        <<"return todoData">>,
        <<"end tell">> >>

\* the parseAppleScriptDate of the alternate implementation: the Date, or
\* NoDate for null
altParseAppleScriptDate(dateStr, zone) ==
  IF ~Truthy(dateStr) \/ dateStr = <<"missing", " ", "value">> THEN NoDate
  ELSE Once(LAMBDA date :
              IF date # NoDate THEN UTC(date, zone)
              ELSE Once(LAMBDA g :
                          IF g # <<>> /\ Includes(monthNames, g[2][1])
                          THEN UTC(NewLocalDate(Num(g[3]),
                                                (CHOOSE k \in 1..12 : monthNames[k] = g[2][1]) - 1,
                                                Num(g[1]), Num(g[4]), Num(g[5]), Num(g[6])),
                                   zone)
                          ELSE NoDate,
                        match(dateStr)),
            Once(LegacyDate, ReplaceAt(StripWeekday(dateStr))))

\* a decoder that leaves the string "null" as it is
altCleaned_MissingValueOnly(todo, zone) ==
  Once(LAMBDA cleaned :
         [k \in DOMAIN todo |->
            IF k \in dateFields /\ JsTruthy(cleaned[k])
            THEN Once(LAMBDA parsedDate :
                        IF parsedDate # NoDate THEN JsString(toISOString(parsedDate))
                        ELSE cleaned[k],
                      altParseAppleScriptDate(cleaned[k].items, zone))
            ELSE cleaned[k]],
       [k \in DOMAIN todo |->
          IF todo[k] = JsString(<<"missing", " ", "value">>) THEN JsNull ELSE todo[k]])

\* const cleaned = { ...todo } after Object.keys(cleaned).forEach(...) and
\* dateFields.forEach(...) of the callback of result.map
altCleaned(todo, zone) ==
  Once(LAMBDA cleaned :
         [k \in DOMAIN todo |->
            IF k \in dateFields /\ JsTruthy(cleaned[k])
            THEN Once(LAMBDA parsedDate :
                        IF parsedDate # NoDate THEN JsString(toISOString(parsedDate))
                        ELSE cleaned[k],
                      altParseAppleScriptDate(cleaned[k].items, zone))
            ELSE cleaned[k]],
       [k \in DOMAIN todo |->
          IF todo[k] \in {JsString(<<"missing", " ", "value">>), JsString(<<"null">>)}
          THEN JsNull ELSE todo[k]])

\* the callback of result.map: cleaned.tags is set and cleaned.tagNames
\* deleted
altCleanTodo(todo, zone) ==
  Once(LAMBDA cleaned :
         [k \in (DOMAIN cleaned \ {"tagNames"}) \cup {"tags"} |->
            IF k # "tags" THEN cleaned[k]
            ELSE IF "tagNames" \in DOMAIN cleaned /\ JsTruthy(cleaned["tagNames"])
              THEN JsArray(split(cleaned["tagNames"].items))
            ELSE JsArray(<<>>)],
       altCleaned(todo, zone))

\* what listTodosJson returns for the result of executeAppleScript
altListTodosJsonResult(res, zone) ==
  IF ~JsTruthy(res) \/ (res.type = "array" /\ res.items = <<>>) THEN JsArray(<<>>)
  ELSE IF res.type = "array"
    THEN JsArray([i \in 1..Len(res.items) |-> altCleanTodo(res.items[i], zone)])
  ELSE JsArray(<<>>)

\* what listTodos returns for the result of executeAppleScript
altListTodosResult(res) ==
  IF ~JsTruthy(res) \/ (res.type = "array" /\ res.items = <<>>) THEN JsArray(<<>>)
  ELSE IF res.type = "array" THEN res ELSE JsArray(<<>>)

\* the checks updateTodo makes before it builds the script
altUpdateTodoValidate(id, o) ==
  IF ~Truthy(id) \/ Len(trim(id)) = 0 THEN ErrIdEmpty
  ELSE altDueError(o.due)

\* the script updateTodo builds: a due date adds no statement
altUpdateTodoScript(id, o) ==
  << <<"tell application ", QUOTE, "Things3", QUOTE>>,
     <<"set aTodo to to do id ">> \o Quoted(EscapeQuotes(id)),
     <<"set todoName to name of aTodo">> >>
  \o (IF Truthy(o.title)
      THEN << <<"set name of aTodo to ">> \o Quoted(EscapeQuotes(o.title)),
              <<"set todoName to ">> \o Quoted(EscapeQuotes(o.title)) >>
      ELSE <<>>)
  \o (IF Truthy(o.notes)
      THEN << <<"set notes of aTodo to ">> \o Quoted(EscapeQuotes(o.notes)) >>
      ELSE <<>>)
  \o (IF Truthy(o.tags)
      THEN << <<"set tag names of aTodo to ">> \o Quoted(EscapeQuotes(o.tags)) >>
      ELSE <<>>)
  \o (IF o.noProject THEN << <<"delete project of aTodo">> >>
      ELSE IF Truthy(o.projectId)
        THEN << <<"set project of aTodo to project id ">> \o Quoted(EscapeQuotes(o.projectId)) >>
      ELSE IF Truthy(o.project)
        THEN << <<"set project of aTodo to project ">> \o Quoted(EscapeQuotes(o.project)) >>
      ELSE <<>>)
  \o (IF o.noArea THEN << <<"delete area of aTodo">> >>
      ELSE IF Truthy(o.areaId)
        THEN << <<"set area of aTodo to area id ">> \o Quoted(EscapeQuotes(o.areaId)) >>
      ELSE IF Truthy(o.area)
        THEN << <<"set area of aTodo to area ">> \o Quoted(EscapeQuotes(o.area)) >>
      ELSE <<>>)
  \o << <<"return todoName">>, <<"end tell">> >>

altAddTodo ==
  /\ pc = "idle"
  /\ \E a \in AddInputs :
       IF altAddTodoValidate(a.title, a.options) # NoMsg
       THEN Throw("addTodo", a, FixedZone(a.zone), altAddTodoValidate(a.title, a.options))
       ELSE executeAppleScript("addTodo", a, FixedZone(a.zone),
                               altAddTodoScript(a.title, a.options, a.zone))

altListTodos ==
  /\ pc = "idle"
  /\ \E c \in Containers, ids \in BOOLEAN :
       executeAppleScript("listTodos", [container |-> c, includeIds |-> ids],
                          FixedZone(0), altListTodosScript(c, ids))

altListTodosJson ==
  /\ pc = "idle"
  /\ \E c \in Containers, z \in DecodeZones :
       /\ c # Today => z = FixedZone(0)
       /\ executeAppleScript("listTodosJson", [container |-> c], z,
                             altListTodosJsonScript(c))

altUpdateTodo ==
  /\ pc = "idle"
  /\ \E a \in UpdateInputs :
       IF altUpdateTodoValidate(a.id, a.options) # NoMsg
       THEN Throw("updateTodo", a, FixedZone(a.zone), altUpdateTodoValidate(a.id, a.options))
       ELSE executeAppleScript("updateTodo", a, FixedZone(a.zone),
                               altUpdateTodoScript(a.id, a.options))

\* the raw results of DecoderInputs in the zone of the process, which
\* executeAppleScript may resolve listTodosJson of the list Today with
AltRecords ==
  IF op = "listTodosJson" /\ args.container = Today
  THEN {inp.raw : inp \in {d \in DecoderInputs : d.zone = tz}}
  ELSE {}

\* the command returns what it makes of the result
altReturn(res) ==
  /\ result' = res
  /\ outcome' = IF op = "listTodosJson" THEN Resolved(altListTodosJsonResult(res, tz))
                ELSE IF op = "listTodos" THEN Resolved(altListTodosResult(res))
                ELSE Resolved(res)

\* osascript calls back: the promise of executeAppleScript settles and the
\* command returns what it makes of the result
altOsascriptCallback ==
  /\ pc = "called"
  /\ \E down \in BOOLEAN, prefix \in MsgPrefixes :
       LET r == HostRun(script, host, down, prefix) IN
       /\ attempts' = r.attempts
       /\ hostErr' = r.error
       /\ IF ~r.ok
          THEN /\ result' = JsNull
               /\ outcome' = Rejected(errorMessage(r.error))
          ELSE IF op \in ListOps
            THEN \/ \E i \in 1..Len(RawResults(op, args)) : altReturn(RawResults(op, args)[i])
                 \/ \E res \in AltRecords : altReturn(res)
          ELSE altReturn(IF op = "updateTodo" THEN JsString(r.value) ELSE JsNull)
  /\ pc' = "done"
  /\ UNCHANGED <<op, args, tz, script, calls, host>>

AltInit ==
  /\ pc = "idle" /\ op = "none" /\ args = <<>> /\ tz = 0
  /\ script = <<>> /\ calls = 0 /\ attempts = <<>> /\ hostErr = NoMsg
  /\ result = JsNull
  /\ outcome = NoOutcome
  /\ host \in {[projectIds |-> s, projects |-> s, areaIds |-> s, areas |-> s,
                todos |-> ThingsTodos] : s \in SUBSET HostNames}

AltNext ==
  \/ altAddTodo
  \/ altListTodos
  \/ altListTodosJson
  \/ altUpdateTodo
  \/ altOsascriptCallback
  \/ Exit

AltSpec == AltInit /\ [][AltNext]_vars

(***************************************************************************)
(* Properties                                                              *)
(***************************************************************************)
Running == pc \in {"called", "done"}
Built == Running /\ script # <<>>

\* a string of the user that is absent, empty or made of blanks only
Blank(x) == x = undefined \/ \A i \in 1..Len(x) : x[i] = " "

Kinds(log) == [i \in 1..Len(log) |-> log[i].kind]
IsPrefix(p, q) == Len(p) <= Len(q) /\ p = SubSeq(q, 1, Len(p))
Count(seq, S) == Cardinality({i \in 1..Len(seq) : seq[i] \in S})

\* --- C1 ---------------------------------------------------------------
HintOrder == <<"list", "projectId", "project", "areaId", "area">>
AttachHead ==
  [list |-> " at beginning of list ", projectId |-> " at beginning of project id ",
   project |-> " at beginning of project ", areaId |-> " at beginning of area id ",
   area |-> " at beginning of area "]
AttachHeads == {AttachHead[HintOrder[i]] : i \in 1..5}
Present(o) == {i \in 1..5 : o[HintOrder[i]] \notin {undefined, <<>>}}
FirstPresent(o) == CHOOSE i \in Present(o) : \A j \in Present(o) : i <= j

\* C1: the creation statement of addTodo carries at most one attach clause;
\* it is the clause of the first hint present (given and not empty) in the
\* order list, project id, project, area id, area, it names that hint's
\* value, and it ends the statement; with no hint present there is none.
\* Hints after the first never make addTodo throw.
C1_AttachPolicy ==
  (op = "addTodo" /\ Running) =>
    LET o == args.options
        items == IF Built THEN Lexed(script[2]) ELSE <<>>
        clauses == {i \in 1..Len(items) :
                      items[i].t = "lit" /\ items[i].v[1] \in AttachHeads}
    IN /\ Built =>
            /\ Cardinality(clauses) <= 1
            /\ IF Present(o) = {} THEN clauses = {}
               ELSE LET f == HintOrder[FirstPresent(o)] IN
                    /\ clauses = {Len(items) - 1}
                    /\ items[Len(items) - 1] = Lit(AttachHead[f])
                    /\ items[Len(items)] = Str(o[f])
       /\ (~Blank(args.title) /\ o.due = undefined
           /\ o.list \in {undefined, <<>>, Today})
          => Built

C1_Witness ==
  /\ op = "addTodo" /\ Built
  /\ args.options.list = undefined /\ args.options.projectId = <<>>
  /\ args.options.project = <<"a">> /\ args.options.areaId = <<"a">>
  /\ args.options.area = <<"a">>

\* --- C2 ---------------------------------------------------------------
\* C2: when listTodos has run, a fixed list name was fetched from that list
\* alone; for any other name the lookups the host made are an initial part
\* of project id, project, area id, area, every lookup but the last one
\* failed, and a listing is returned only after a lookup that succeeded.
C2_ListResolution ==
  (op = "listTodos" /\ pc = "done") =>
    /\ args.container \in FixedLists => \A i \in 1..Len(attempts) : attempts[i].kind = "list"
    /\ args.container \notin FixedLists =>
         /\ IsPrefix(Kinds(attempts), ChainOrder)
         /\ \A i \in 1..Len(attempts) - 1 : ~attempts[i].ok
    /\ outcome.kind = "value" => attempts # <<>> /\ attempts[Len(attempts)].ok

C2_Witness ==
  /\ op = "listTodos" /\ pc = "done" /\ args.includeIds
  /\ Kinds(attempts) = <<"project id", "project", "area id">>
  /\ attempts[3].ok /\ outcome.kind = "value"

\* --- C3 ---------------------------------------------------------------
\* C3: when listTodos has run for a name that is no fixed list, a lookup
\* that failed at level 1, 2 or 3 was followed by the next level, so an
\* error after a lookup comes from level 4; when all four failed the command
\* rejects with what executeAppleScript makes of the host's message for the
\* area lookup, and returns no listing.
C3_FallThrough ==
  (op = "listTodos" /\ pc = "done" /\ args.container \notin FixedLists) =>
    /\ \A i \in 1..Len(attempts) : (i < 4 /\ ~attempts[i].ok) => Len(attempts) > i
    /\ (outcome.kind = "error" /\ attempts # <<>>) => Len(attempts) = 4
    /\ (Len(attempts) = 4 /\ ~attempts[4].ok) =>
         /\ \E prefix \in MsgPrefixes : hostErr = prefix \o <<"Can't get ", "area">>
         /\ outcome = Rejected(errorMessage(hostErr))

C3_Witness ==
  /\ op = "listTodos" /\ pc = "done" /\ args.container = <<"a">>
  /\ Len(attempts) = 4 /\ ~attempts[4].ok /\ outcome.kind = "error"
  /\ host.projectIds = {} /\ host.areas = {}

\* --- C4 ---------------------------------------------------------------
ById(c) == Resolves(host, "project id", c) \/ Resolves(host, "area id", c)
ByName(c) == Resolves(host, "project", c) \/ Resolves(host, "area", c)
AppUp == ~includes(hostErr, "Application isn't running")

\* C4: when listTodosJson has run, a fixed list name was fetched from that
\* list alone; for any other name the lookups are an initial part of project,
\* area (never by id) and the second is made only after the first failed; a
\* name that Things 3 resolves by id only is listed by listTodos and
\* rejected by listTodosJson.
C4_JsonResolution ==
  /\ (op = "listTodosJson" /\ pc = "done") =>
       /\ args.container \in FixedLists =>
            \A i \in 1..Len(attempts) : attempts[i].kind = "list"
       /\ args.container \notin FixedLists =>
            /\ IsPrefix(Kinds(attempts), <<"project", "area">>)
            /\ \A i \in 1..Len(attempts) - 1 : ~attempts[i].ok
       /\ outcome.kind = "value" => attempts # <<>> /\ attempts[Len(attempts)].ok
  /\ (op \in ListOps /\ pc = "done" /\ args.container \in HostNames
      /\ ById(args.container) /\ ~ByName(args.container) /\ AppUp) =>
       outcome.kind = (IF op = "listTodos" THEN "value" ELSE "error")

C4_Witness ==
  /\ op = "listTodosJson" /\ pc = "done" /\ args.container = <<"a">>
  /\ ById(<<"a">>) /\ ~ByName(<<"a">>)
  /\ Kinds(attempts) = <<"project", "area">> /\ outcome.kind = "error"

\* --- C5 ---------------------------------------------------------------
Validating == {"addTodo", "completeTodoById", "updateTodo", "addProject", "addArea", "addTag"}

KeyArg ==
  CASE op = "addTodo" -> args.title
    [] op \in {"completeTodoById", "updateTodo"} -> args.id
    [] op \in {"addProject", "addArea", "addTag"} -> args.name

KeyError ==
  CASE op = "addTodo" -> ErrTitleEmpty
    [] op \in {"completeTodoById", "updateTodo"} -> ErrIdEmpty
    [] op = "addProject" -> ErrProjectEmpty
    [] op = "addArea" -> ErrAreaEmpty
    [] op = "addTag" -> ErrTagEmpty

\* C5: in an invocation of addTodo, completeTodoById, updateTodo, addProject,
\* addArea or addTag whose title / id / name is absent, empty or blanks only,
\* the command has thrown its own validation error, no script was built and
\* executeAppleScript was not called.
C5_ValidateFirst ==
  (op \in Validating /\ Running /\ Blank(KeyArg)) =>
    /\ pc = "done" /\ outcome = Rejected(KeyError)
    /\ calls = 0 /\ script = <<>> /\ attempts = <<>>

C5_Witness ==
  /\ op = "updateTodo" /\ pc = "done" /\ args.id = <<" ", " ">>
  /\ outcome.error = ErrIdEmpty /\ calls = 0

\* --- C6 ---------------------------------------------------------------
PassesTitleAndDue == op = "addTodo" /\ Running /\ ~Blank(args.title) /\ args.options.due = undefined

ListAttached(l) ==
  /\ Built
  /\ Len(script[2]) >= 4
  /\ SubSeq(script[2], Len(script[2]) - 3, Len(script[2]))
       = <<" at beginning of list ", QUOTE>> \o l \o <<QUOTE>>

MatchesPattern(s) ==
  /\ Len(s) = 10
  /\ \A i \in {1, 2, 3, 4, 6, 7, 9, 10} : s[i] \in Digits
  /\ s[5] = "-" /\ s[8] = "-"

IsCalendarDate(s) ==
  LET y == Num(SubSeq(s, 1, 4))
      m == Num(SubSeq(s, 6, 7))
      d == Num(SubSeq(s, 9, 10))
  IN m \in 1..12 /\ d >= 1 /\ d <= DaysInMonth(y, m)

\* C7: in addTodo and updateTodo a due date that is not four digits, dash,
\* two digits, dash, two digits is rejected with the format error, one that
\* has this form but names no day of the calendar is rejected with the
\* invalid-date error, and in both cases executeAppleScript is not called.
C7_DueDateValidation ==
  (op \in {"addTodo", "updateTodo"} /\ Running /\ ~Blank(KeyArg)
   /\ args.options.due \notin {undefined, <<>>}) =>
    LET due == args.options.due IN
    /\ ~MatchesPattern(due) => outcome = Rejected(ErrDateFormat) /\ calls = 0
    /\ (MatchesPattern(due) /\ ~IsCalendarDate(due)) =>
         outcome = Rejected(ErrDateInvalid) /\ calls = 0

\* --- C8 ---------------------------------------------------------------
RECURSIVE BackslashesBefore(_, _)
\* the number of consecutive backslashes that end just before position i
BackslashesBefore(s, i) ==
  IF i > 1 /\ s[i - 1] = BACKSLASH THEN 1 + BackslashesBefore(s, i - 1) ELSE 0

NoBareQuote(e) == \A i \in 1..Len(e) : e[i] = QUOTE => BackslashesBefore(e, i) % 2 = 1

\* what is left of an escaped string when each quote and the backslash put
\* before it are taken out, and the same for the string it was made from
Unquoted(s) == SelectSeq(s, LAMBDA c : c # QUOTE)

RECURSIVE DropEscapes(_)
DropEscapes(e) ==
  IF e = <<>> THEN <<>>
  ELSE IF Len(e) >= 2 /\ e[1] = BACKSLASH /\ e[2] = QUOTE THEN DropEscapes(SubSeq(e, 3, Len(e)))
  ELSE IF e[1] = QUOTE THEN DropEscapes(Tail(e))
  ELSE <<e[1]>> \o DropEscapes(Tail(e))

\* the text addTodo put between the quotes of name:"..."
NameLiteral == SubSeq(script[2], 4, 3 + Len(EscapeQuotes(args.title)))

\* C8: the escaped title in the script of addTodo holds no double quote
\* that an even number of backslashes (none included) precedes, and its
\* other characters are those of the title, in order.
C8_EscaperSafe ==
  (op = "addTodo" /\ Built) =>
    /\ NameLiteral = EscapeQuotes(args.title)
    /\ NoBareQuote(NameLiteral)
    /\ DropEscapes(NameLiteral) = Unquoted(args.title)

\* --- C9 ---------------------------------------------------------------
RECURSIVE JsLex(_, _, _, _, _)
\* the literals of a line when backslash-quote stands for a quote and any
\* other quote opens or closes a literal
JsLex(line, i, inStr, cur, acc) ==
  IF i > Len(line) THEN (IF inStr THEN SyntaxError ELSE acc)
  ELSE IF ~inStr
    THEN IF line[i] = QUOTE THEN JsLex(line, i + 1, TRUE, <<>>, acc)
         ELSE JsLex(line, i + 1, FALSE, <<>>, Append(acc, Lit(line[i])))
  ELSE IF line[i] = BACKSLASH /\ i < Len(line) /\ line[i + 1] = QUOTE
    THEN JsLex(line, i + 2, TRUE, Append(cur, QUOTE), acc)
  ELSE IF line[i] = QUOTE THEN JsLex(line, i + 1, FALSE, <<>>, Append(acc, Str(cur)))
  ELSE JsLex(line, i + 1, TRUE, Append(cur, line[i]), acc)

OptionStrings(o, fields) == {o[f] : f \in fields}

\* the strings the user gave to the running command
UserStrings ==
  CASE op = "addTodo" ->
         {args.title} \cup OptionStrings(args.options,
            {"notes", "tags", "list", "projectId", "project", "areaId", "area"})
    [] op \in ListOps -> {args.container}
    [] op = "completeTodoById" -> {args.id}
    [] op = "updateTodo" ->
         {args.id} \cup OptionStrings(args.options,
            {"title", "notes", "tags", "projectId", "project", "areaId", "area"})
    [] op = "addProject" -> {args.name, args.options.notes, args.options.area}
    [] op \in {"addArea", "addTag"} -> {args.name}
    [] OTHER -> {}

EscapedLine(line) ==
  LET items == JsLex(line, 1, FALSE, <<>>, <<>>) IN
  /\ items # SyntaxError
  /\ \A i \in 1..Len(items) :
       IF items[i].t = "lit" THEN items[i].v[1] \notin UserTokens
       ELSE items[i].v = <<"Things3">> \/ items[i].v \in UserStrings

\* the user gave no backslash (what a backslash of the user does to the
\* literal around it is the matter of C8)
NoBackslash == \A s \in UserStrings : \A i \in 1..Len(s) : s[i] # BACKSLASH

\* C9: in a script built by any command but showQuickEntry from strings
\* without a backslash, every double quote of a string of the user stands
\* escaped: read with backslash-quote as a quote, each line is made of
\* template text and closed literals, and each literal holds a string the
\* user gave (or the application's name).
C9_AllEscaped ==
  (Built /\ op # "showQuickEntry" /\ NoBackslash) =>
    \A i \in 1..Len(script) : EscapedLine(script[i])

\* the same, for the commands other than listTodos and listTodosJson
C9_EscapedButContainer ==
  (Built /\ op \notin ListOps \cup {"showQuickEntry"} /\ NoBackslash) =>
    \A i \in 1..Len(script) : EscapedLine(script[i])

\* --- C10 --------------------------------------------------------------
PropertyKeys(line) ==
  SelectSeq(line, LAMBDA t : t \in {"name:", "notes:", "tag names:", "due date:"})

IsEncode(line) ==
  /\ Len(line) >= 3
  /\ line[1] \in {"set ", "set month of ", "set day of ", "set year of ", "set time of "}
  /\ line[2] = "tempDate"

EncodeLines(lines) == {i \in 1..Len(lines) : IsEncode(lines[i])}
AssignLines(lines) == {i \in 1..Len(lines) : lines[i] = SetDueOfNew}

CreateShape ==
  LET o == args.options IN
  /\ script[2][1] = MakeNewToDo
  /\ PropertyKeys(script[2])
       = <<"name:">> \o (IF o.notes \notin {undefined, <<>>} THEN <<"notes:">> ELSE <<>>)
                     \o (IF o.tags \notin {undefined, <<>>} THEN <<"tag names:">> ELSE <<>>)
  /\ \A i \in 1..Len(script) : i # 2 => script[i][1] # MakeNewToDo
  /\ IF o.due \in {undefined, <<>>}
     THEN EncodeLines(script) = {} /\ AssignLines(script) = {}
     ELSE /\ \A i \in EncodeLines(script) : i > 2
          /\ \E a \in AssignLines(script) :
               /\ AssignLines(script) = {a}
               /\ \A i \in EncodeLines(script) : i < a

\* C10 (as claimed): the creation statement of addTodo lists name, notes,
\* tags (those given), never a due date; with a due date the encode
\* statements follow the creation statement and the assignment of the due
\* date follows them; there are exactly three encode statements.
C10_AsClaimed ==
  (op = "addTodo" /\ Built) =>
    /\ CreateShape
    /\ args.options.due \notin {undefined, <<>>} => Cardinality(EncodeLines(script)) = 3

\* C10 (amended): as claimed, but the encode statements are five: set the
\* temporary to the current date, then its month, day, year, and its time
\* to 0, directly after the creation statement and directly before the
\* assignment.
C10_CreateShape ==
  (op = "addTodo" /\ Built) =>
    /\ CreateShape
    /\ args.options.due \notin {undefined, <<>>} =>
         /\ EncodeLines(script) = 3..7
         /\ [i \in 1..5 |-> script[i + 2][1]]
              = <<"set ", "set month of ", "set day of ", "set year of ", "set time of ">>
         /\ AssignLines(script) = {8}

C10_Witness ==
  /\ op = "addTodo" /\ Built
  /\ args.options.due = FormatYMD(2024, 1, 15) /\ args.options.tags = <<"a">>
  /\ args.options.list = Today /\ args.options.notes = undefined
  /\ Len(script) = 9

\* --- C11 --------------------------------------------------------------
Given(x) == x \notin {undefined, <<>>}

ProjectHeads ==
  {"delete project of aTodo", "set project of aTodo to project id ",
   "set project of aTodo to project "}
AreaHeads ==
  {"delete area of aTodo", "set area of aTodo to area id ", "set area of aTodo to area "}

LinesOf(heads) == {i \in 1..Len(script) : script[i] # <<>> /\ script[i][1] \in heads}

\* the one statement of the script for a target: head is its first token,
\* value the literal it names (read back where the user gave no backslash);
\* with head "" there is none
OneStatement(heads, head, value) ==
  IF head = "" THEN LinesOf(heads) = {}
  ELSE \E i \in LinesOf(heads) :
         /\ LinesOf(heads) = {i}
         /\ script[i][1] = head
         /\ IF value = undefined THEN script[i] = <<head>>
            ELSE NoBackslash => Lexed(script[i]) = <<Lit(head), Str(value)>>

Negated(given) == \E i \in 1..Len(given) : given[i] = Negation
Named(given) == \E i \in 1..Len(given) : given[i] # Negation /\ given[i] # <<>>
TheName(given) == given[CHOOSE i \in 1..Len(given) : given[i] # Negation]

\* C11: the script of an update holds at most one project statement: the
\* detach when the removal flag (--no-project) is given, else the attach by
\* id when a project id is given, else the attach by name when a project
\* name is given, else none; the same for the area; each is decided by the
\* options of its own target.
C11_UpdatePrecedence ==
  (op = "updateTodo" /\ Built) =>
    LET o == args.options IN
    /\ OneStatement(ProjectHeads,
                    IF Negated(args.project) THEN "delete project of aTodo"
                    ELSE IF Given(o.projectId) THEN "set project of aTodo to project id "
                    ELSE IF Named(args.project) THEN "set project of aTodo to project "
                    ELSE "",
                    IF Negated(args.project) THEN undefined
                    ELSE IF Given(o.projectId) THEN o.projectId ELSE TheName(args.project))
    /\ OneStatement(AreaHeads,
                    IF Negated(args.area) THEN "delete area of aTodo"
                    ELSE IF Given(o.areaId) THEN "set area of aTodo to area id "
                    ELSE IF Named(args.area) THEN "set area of aTodo to area "
                    ELSE "",
                    IF Negated(args.area) THEN undefined
                    ELSE IF Given(o.areaId) THEN o.areaId ELSE TheName(args.area))

\* --- C12 --------------------------------------------------------------
\* C12: the script of completeTodoById resolves the to-do by its id, reads
\* its name, sets its status to completed and returns the name, in this
\* order; when the host ran it through, these are the steps it made, the
\* command resolves with the name the to-do had when it was read, and the
\* status was set after that; when the id does not resolve no status is set.
C12_CompleteOrdering ==
  (op = "completeTodoById" /\ Built) =>
    /\ Len(script) = 6
    /\ script[2][1] = "set aTodo to to do id "
    /\ script[3] = <<"set todoName to name of aTodo">>
    /\ script[4] = <<"set status of aTodo to completed">>
    /\ script[5] = <<"return todoName">>
    /\ (pc = "done" /\ outcome.kind = "value") =>
         /\ Kinds(attempts) = <<"to do id", "get name", "set status">>
         /\ \E t \in host.todos :
              /\ t.id = attempts[1].name
              /\ attempts[2].name = t.name
              /\ result = JsString(t.name)
         /\ outcome = Resolved(result)
    /\ (pc = "done" /\ outcome.kind = "error") =>
         \A i \in 1..Len(attempts) : attempts[i].kind # "set status"

C12_Witness ==
  /\ op = "completeTodoById" /\ pc = "done" /\ args.id = <<"a">>
  /\ outcome.kind = "value" /\ outcome.value.items = <<"b">>
  /\ attempts[3].kind = "set status"

\* --- C13 --------------------------------------------------------------
\* C13: a command that osascript reported an error to rejects with: the
\* not-found message when the raw message holds "not found"; else the
\* not-running message when it holds "Application isn't running"; else the
\* generic Things 3 message when it holds "Things3"; else the raw message.
C13_Classification ==
  (pc = "done" /\ hostErr # NoMsg) =>
    outcome =
      Rejected(IF includes(hostErr, "not found") THEN MsgNotFound
               ELSE IF includes(hostErr, "Application isn't running") THEN MsgNotRunning
               ELSE IF includes(hostErr, "Things3") THEN MsgThingsError
               ELSE hostErr)

\* --- C20 --------------------------------------------------------------
\* C20: a list command (listTodos, listTodosJson, listProjects, listAreas,
\* listTags) that executeAppleScript resolved returns an array: the empty
\* array when the raw result is null, undefined, empty or no array, and an
\* array of as many items as the raw result when that is an array.
C20_ListBoundary ==
  (op \in Listing /\ pc = "done" /\ outcome.kind = "value") =>
    /\ outcome.value.type = "array"
    /\ IF result.type = "array"
       THEN Len(outcome.value.items) = Len(result.items)
       ELSE outcome.value.items = <<>>

C20_Witness ==
  /\ op = "listProjects" /\ pc = "done" /\ args.includeIds
  /\ result.type = "string" /\ result.items # <<>>
  /\ outcome.kind = "value" /\ outcome.value.type = "array" /\ outcome.value.items = <<>>

\* --- C14 .. C19: the decoding of a listing ------------------------------
Decoded == op = "listTodosJson" /\ pc = "done" /\ outcome.kind = "value" /\ result.type = "array"

Raw == result.items
Out == outcome.value.items

SentinelText(v) ==
  v.type = "string" /\ v.items \in {<<"missing", " ", "value">>, <<"null">>}

\* C14: in a decoded listing every field (but the tag names, which are
\* replaced by the list of tags) whose raw value is the string
\* "missing value" or the string "null" is null, and every other string of a
\* field that is no date field is the raw string.
C14_SentinelNormalization ==
  Decoded =>
    /\ Len(Out) = Len(Raw)
    /\ \A i \in 1..Len(Raw) : \A k \in DOMAIN Raw[i] \ {"tagNames"} :
         /\ k \in DOMAIN Out[i]
         /\ SentinelText(Raw[i][k]) => Out[i][k] = JsNull
         /\ (k \notin dateFields /\ ~SentinelText(Raw[i][k])) => Out[i][k] = Raw[i][k]

C14_Witness ==
  /\ Decoded /\ args.kind = "garbled" /\ Len(Raw) = 2
  /\ Raw[1]["name"] = JsString(<<"null">>) /\ Out[1]["name"] = JsNull
  /\ Out[1]["id"] = JsString(<<"a">>)

\* --- C15 --------------------------------------------------------------
IsISO(v) ==
  /\ v.type = "string" /\ Len(v.items) = 24
  /\ \A i \in 1..24 :
       v.items[i] \in (CASE i \in {5, 8} -> {"-"}
                         [] i = 11 -> {"T"}
                         [] i \in {14, 17} -> {":"}
                         [] i = 20 -> {"."}
                         [] i \in {21, 22, 23} -> {"0"}
                         [] i = 24 -> {"Z"}
                         [] OTHER -> Digits)

\* texts the host displays for an instant
Displayed(text) == \E t \in Instants \cup {T0, FallBack} : text = DisplayDate(t, tz)

\* texts that name no date
Unparseable ==
  { <<"tomorrow">>,
    <<"Wednesday", " ", "6", " ", "Foo", " ", "2", "0", "2", "5", " ", "at", " ",
      "2", "0", ":", "4", "5", ":", "4", "6">>,
    <<"2", "0", ":", "4", "5", ":", "4", "6">> }

\* C15 (as claimed): every date field of a decoded record is an ISO
\* timestamp or null.
C15_AsClaimed ==
  Decoded =>
    \A i \in 1..Len(Out) : \A f \in dateFields \cap DOMAIN Out[i] :
      Out[i][f] = JsNull \/ IsISO(Out[i][f])

\* C15 (amended): every date field of a decoded record is an ISO timestamp,
\* null, or the raw text: null when the raw value is null or a sentinel, an
\* ISO timestamp when it is a text the host displays for a date, and the
\* raw text, unchanged, when it is empty or names no date.
C15_DateFields ==
  Decoded =>
    \A i \in 1..Len(Out) : \A f \in dateFields \cap DOMAIN Raw[i] :
      /\ Out[i][f] = JsNull \/ IsISO(Out[i][f]) \/ Out[i][f] = Raw[i][f]
      /\ (Raw[i][f] = JsNull \/ SentinelText(Raw[i][f])) <=> Out[i][f] = JsNull
      /\ (Raw[i][f].type = "string" /\ Displayed(Raw[i][f].items)) => IsISO(Out[i][f])
      /\ (Raw[i][f].type = "string" /\ Raw[i][f].items \in Unparseable \cup {<<>>})
           => Out[i][f] = Raw[i][f]

C15_Witness ==
  /\ Decoded /\ args.kind = "garbled" /\ Len(Raw) = 1
  /\ "dueDate" \in DOMAIN Raw[1]
  /\ Raw[1]["dueDate"] = JsString(<<>>) /\ Out[1]["dueDate"] = JsString(<<>>)
  /\ IsISO(Out[1]["creationDate"]) /\ Out[1]["completionDate"] = JsNull

\* --- C16 --------------------------------------------------------------
\* C16: a listing decodes to as many records as the raw result holds, in the
\* same order; a date field whose text names no date keeps that text, and
\* the other fields of its record are decoded all the same: the tags are a
\* list, the sentinels are null, the dates the host displays are ISO
\* timestamps.
C16_PartialFailure ==
  Decoded =>
    /\ Len(Out) = Len(Raw)
    /\ \A i \in 1..Len(Raw) :
         /\ \A k \in DOMAIN Raw[i] \ (dateFields \cup {"tagNames"}) :
              Out[i][k] = (IF SentinelText(Raw[i][k]) THEN JsNull ELSE Raw[i][k])
         /\ \A f \in dateFields \cap DOMAIN Raw[i] :
              /\ (Raw[i][f].type = "string" /\ Raw[i][f].items \in Unparseable)
                   => Out[i][f] = Raw[i][f]
              /\ (Raw[i][f].type = "string" /\ Displayed(Raw[i][f].items))
                   => Out[i][f] = JsString(toISOString(
                                    CHOOSE t \in Instants \cup {T0, FallBack} :
                                      Raw[i][f].items = DisplayDate(t, tz)))
              /\ Raw[i][f] = JsNull => Out[i][f] = JsNull
         /\ "tags" \in DOMAIN Out[i] /\ Out[i]["tags"].type = "array"
         /\ ("tagNames" \in DOMAIN Raw[i] /\ Raw[i]["tagNames"].type = "string"
             /\ ~SentinelText(Raw[i]["tagNames"]))
              => Join(Out[i]["tags"].items, <<",", " ">>) = Raw[i]["tagNames"].items

C16_Witness ==
  /\ Decoded /\ args.kind = "garbled" /\ Len(Raw) = 2 /\ Len(Out) = 2
  /\ "dueDate" \in DOMAIN Raw[1]
  /\ Raw[1]["dueDate"] = JsString(<<"tomorrow">>) /\ Out[1]["dueDate"] = JsString(<<"tomorrow">>)
  /\ Raw[1]["notes"] = JsString(<<"null">>) /\ Out[1]["notes"] = JsNull
  /\ Out[1]["tags"].items = << <<"a">>, <<"b">> >>
  /\ IsISO(Out[1]["creationDate"])
  /\ Out[2]["tags"].items = << <<"a">> >>

\* --- C17 --------------------------------------------------------------
HasSep(name) == \E i \in 1..(Len(name) - 1) : name[i] = "," /\ name[i + 1] = " "

\* C17: every decoded record has a field tags that is a list and no field
\* tagNames; the list is empty when the raw tag names are absent, null, a
\* sentinel or the empty string; else it is the raw string cut at every
\* ", ": its parts hold no ", " and, joined by ", ", give the raw string.
C17_TagDecoding ==
  Decoded =>
    \A i \in 1..Len(Out) :
      /\ "tags" \in DOMAIN Out[i] /\ "tagNames" \notin DOMAIN Out[i]
      /\ Out[i]["tags"].type = "array"
      /\ IF \/ "tagNames" \notin DOMAIN Raw[i]
            \/ Raw[i]["tagNames"] = JsNull
            \/ SentinelText(Raw[i]["tagNames"])
            \/ Raw[i]["tagNames"] = JsString(<<>>)
         THEN Out[i]["tags"].items = <<>>
         ELSE LET parts == Out[i]["tags"].items IN
              /\ parts # <<>>
              /\ \A j \in 1..Len(parts) : ~HasSep(parts[j])
              /\ Join(parts, <<",", " ">>) = Raw[i]["tagNames"].items

C17_Witness ==
  /\ Decoded /\ args.kind = "rendered" /\ Len(Out) = 1
  /\ Raw[1]["tagNames"] = JsString(<<"a", " ", "b", ",", " ", ",">>)
  /\ Out[1]["tags"].items = << <<"a", " ", "b">>, <<",">> >>

\* --- C18 --------------------------------------------------------------
\* C18: the tags decoded from what the host displays for the tags of a
\* to-do (its tag names joined by ", ") are the tags of the to-do, in their
\* order, for every list of tag names; the to-do without tags is displayed
\* as the empty string and decodes to the empty list.
C18_TagRoundTrip ==
  (Decoded /\ args.kind = "rendered") =>
    \A i \in 1..Len(Out) :
      /\ Raw[i]["tagNames"] = JsString(Join(host.todos[i].tags, <<",", " ">>))
      /\ Out[i]["tags"].items = host.todos[i].tags

\* --- C19 --------------------------------------------------------------
\* C19: the date decoded from what the host displays for an instant
\* ("<Weekday> <day> <Month> <year> at <H>:<MM>:<SS>", in the zone of the
\* machine) is that instant, for every instant.
C19_DateRoundTrip ==
  (Decoded /\ args.kind = "rendered") =>
    \A i \in 1..Len(Out) :
      /\ Raw[i]["creationDate"] = JsString(DisplayDate(host.todos[i].creation, tz))
      /\ Out[i]["creationDate"] = JsString(toISOString(host.todos[i].creation))
      /\ host.todos[i].due # NoDate =>
           Out[i]["dueDate"] = JsString(toISOString(host.todos[i].due))

\* --- C21 --------------------------------------------------------------
\* what the validation of the running command says of its arguments
Validated ==
  CASE op = "addTodo" -> addTodoValidate(args.title, args.options)
    [] op = "completeTodoById" -> completeTodoByIdValidate(args.id)
    [] op = "updateTodo" -> updateTodoValidate(args.id, args.options)
    [] op = "addProject" -> addProjectValidate(args.name)
    [] op = "addArea" -> addAreaValidate(args.name)
    [] op = "addTag" -> addTagValidate(args.name)
    [] OTHER -> NoMsg

\* one call at most, one exactly after a validation that passed, none and
\* no script after one that failed; the script is there when the call is
\* made and nothing is decoded before the call has settled
OneCall ==
  /\ calls \in {0, 1}
  /\ pc = "idle" => calls = 0 /\ script = <<>>
  /\ Running => (Validated = NoMsg <=> calls = 1)
  /\ (Running /\ Validated # NoMsg) =>
       /\ pc = "done" /\ script = <<>> /\ attempts = <<>>
       /\ outcome = Rejected(Validated)
  /\ calls = 1 => script # <<>>
  /\ pc = "called" =>
       /\ outcome = NoOutcome /\ result = JsNull
       /\ attempts = <<>> /\ hostErr = NoMsg
  /\ (outcome # NoOutcome \/ hostErr # NoMsg \/ attempts # <<>>) => pc = "done"

\* a call is made from the start of an invocation only; once the call has
\* settled, failed or not, the invocation makes no other call
NoRetry ==
  /\ calls' > calls => pc = "idle" /\ pc' = "called" /\ calls' = 1
  /\ pc = "called" => pc' = "done" /\ calls' = calls /\ script' = script
  /\ pc = "done" => pc' = "idle" /\ calls' = 0

\* C21: in every invocation of every command executeAppleScript is called
\* at most once, exactly once when the validation passes and never when it
\* fails; a failed call is not followed by another call of the invocation;
\* validation comes before the script, the script before the call and the
\* call before the decoding of its result.
C21_SingleRoundTrip == []OneCall /\ [][NoRetry]_vars

C21_Witness ==
  /\ pc = "done" /\ hostErr # NoMsg /\ calls = 1 /\ script # <<>>
  /\ outcome.kind = "error" /\ Validated = NoMsg

\* --- C22 --------------------------------------------------------------
\* the statements of generateAppleScriptDate have all been run by the host
Encoded == op = "generateAppleScriptDate" /\ pc = "done"

\* C22: whatever the host's current date and whatever the target date, once
\* the host has run the statements of generateAppleScriptDate in the order
\* they were emitted, the temporary holds the year, month and day the
\* function read from the target date and a time of day of zero.
C22_EncodeUnderHost ==
  Encoded =>
    host.tempDate = [day |-> LocalFields(args.date, tz), time |-> 0]

\* --- C23 --------------------------------------------------------------
\* the numbers the script writes into the part of tempDate set by head
Written(head) ==
  { NumberOf(script[i][4]) :
      i \in {j \in 1..Len(script) : /\ Len(script[j]) = 4 /\ script[j][1] = head
                                    /\ script[j][2] = "tempDate"} }

\* C23: for every due date YYYY-MM-DD that names a day of the calendar and
\* every zone of the machine, the year, month and day the script of addTodo
\* or updateTodo writes into tempDate are the year, month and day of the
\* string given.
C23_DuePreserved ==
  (Built /\ op \in {"addTodo", "updateTodo"} /\ Given(args.options.due)
   /\ IsCalendarDate(args.options.due)) =>
    LET due == args.options.due IN
    /\ Written("set year of ") = {Num(SubSeq(due, 1, 4))}
    /\ Written("set month of ") = {Num(SubSeq(due, 6, 7))}
    /\ Written("set day of ") = {Num(SubSeq(due, 9, 10))}

\* --- C24 --------------------------------------------------------------
\* the statement of the script for a property: none when the option is not
\* given, one that carries the option when it is
Statements(head, x) == OneStatement({head}, IF Given(x) THEN head ELSE "", x)

\* no option at all on the command line of the update
Bare ==
  /\ args.project = <<>> /\ args.area = <<>>
  /\ \A k \in {"title", "notes", "tags", "due", "projectId", "areaId"} :
       ~Given(args.options[k])

\* C24: the script of an update holds the statements for the title (the
\* name and todoName), the notes, the tags and the due date (the five
\* statements on tempDate and the assignment) exactly when the option is
\* given with a value; with no option given it is the resolution by id, the
\* reading of the name and its return, and the host writes no property;
\* the host writes no property whose option was not given.
C24_UpdateOnlySupplied ==
  (Built /\ op = "updateTodo") =>
    LET o == args.options IN
    /\ Statements("set name of aTodo to ", o.title)
    /\ Statements("set todoName to ", o.title)
    /\ Statements("set notes of aTodo to ", o.notes)
    /\ Statements("set tag names of aTodo to ", o.tags)
    /\ Cardinality(EncodeLines(script)) = IF Given(o.due) THEN 5 ELSE 0
    /\ Cardinality(LinesOf({"set due date of aTodo to tempDate"}))
         = IF Given(o.due) THEN 1 ELSE 0
    /\ Bare => script = << TellThings,
                           <<"set aTodo to to do id ">> \o Quoted(EscapeQuotes(args.id)),
                           <<"set todoName to name of aTodo">>,
                           <<"return todoName">>, EndTell >>
    /\ pc = "done" =>
         /\ Bare => WritesOf(attempts) = <<>>
         /\ \A i \in 1..Len(attempts) :
              /\ attempts[i].kind = "set name" => Given(o.title)
              /\ attempts[i].kind = "set notes" => Given(o.notes)
              /\ attempts[i].kind = "set tag names" => Given(o.tags)
              /\ attempts[i].kind = "set due date" => Given(o.due)

C24_Witness ==
  /\ op = "updateTodo" /\ pc = "done" /\ outcome.kind = "value"
  /\ ~Given(args.options.title) /\ args.options.title = <<>>
  /\ Given(args.options.notes) /\ ~Given(args.options.tags) /\ Given(args.options.due)
  /\ Kinds(WritesOf(attempts)) = <<"set notes", "set due date">>

\* --- C25 --------------------------------------------------------------
\* the run stopped at a move whose project or area the host does not hold
FailedMove ==
  /\ op = "updateTodo" /\ pc = "done" /\ attempts # <<>>
  /\ ~attempts[Len(attempts)].ok
  /\ attempts[Len(attempts)].kind \in {"set project", "set area"}

\* the writes of the properties given, in the order of the script
GivenWrites(o) ==
  (IF Given(o.title) THEN <<"set name">> ELSE <<>>)
  \o (IF Given(o.notes) THEN <<"set notes">> ELSE <<>>)
  \o (IF Given(o.tags) THEN <<"set tag names">> ELSE <<>>)
  \o (IF Given(o.due) THEN <<"set due date">> ELSE <<>>)

\* C25: when the script of an update fails at the statement that moves the
\* to-do to a project or an area, the caller gets an error and no name, the
\* properties written by the statements before it stay written (the title
\* given is the name of the to-do in the host), and no statement after it
\* has written anything.
C25_NoRollback ==
  FailedMove =>
    LET o == args.options
        last == attempts[Len(attempts)]
    IN /\ outcome.kind = "error" /\ result = JsNull
       /\ Kinds(WritesOf(attempts))
            = GivenWrites(o) \o (IF last.kind = "set area" /\ LinesOf(ProjectHeads) # {}
                                 THEN <<"set project">> ELSE <<>>)
       /\ Given(o.title) =>
            /\ NameAfter(host, attempts) # ToDoById(host, args.id).name
            /\ NoBackslash => NameAfter(host, attempts) = o.title
       /\ last.kind = "set project" =>
            \A i \in 1..Len(attempts) : attempts[i].kind # "set area"

C25_Witness ==
  /\ FailedMove /\ outcome.kind = "error"
  /\ args.options.title = <<"a">> /\ args.options.notes = <<"a">>
  /\ Given(args.options.area)
  /\ attempts[Len(attempts)].kind = "set project"
  /\ NameAfter(host, attempts) = <<"a">>
  /\ Kinds(WritesOf(attempts)) = <<"set name", "set notes">>

\* --- C26 --------------------------------------------------------------
Parsed == op = "parseAppleScriptDate" /\ pc = "done"

\* the twelve names of the months, as the fallback spells them
FullMonths ==
  {"January", "February", "March", "April", "May", "June", "July", "August",
   "September", "October", "November", "December"}

\* the text the generic parse is given
CleanStr == ReplaceAt(StripWeekday(args.dateStr))

\* C26: parseAppleScriptDate never raises; it gives null for an absent or
\* empty text and for "missing value"; for any other text it gives what the
\* generic parse makes of the text without its leading word and with " at "
\* turned into a blank whenever that is a date; only when it is not does
\* the pattern "<day> <Month> <year> at <h>:<mm>:<ss>" decide, with the date
\* of its numbers when the month is one of the twelve full English names in
\* exact case, and null when the pattern does not match or the month is
\* spelled otherwise.
C26_DecodeAlgorithm ==
  Parsed =>
    LET s == args.dateStr
        out == outcome.value
    IN /\ outcome.kind = "value"
       /\ IF s \in {undefined, <<>>, MissingValue} THEN out = NoDate
          ELSE IF LegacyDate(CleanStr) # NoDate THEN out = UTC(LegacyDate(CleanStr), tz)
          ELSE IF match(s) # <<>> /\ match(s)[2][1] \in FullMonths
            THEN /\ out # NoDate
                 /\ out = UTC(MakeDate(Num(match(s)[3]),
                                       CHOOSE k \in 1..12 : monthNames[k] = match(s)[2][1],
                                       Num(match(s)[1]), Num(match(s)[4]),
                                       Num(match(s)[5]), Num(match(s)[6])), tz)
          ELSE out = NoDate

\* the generic parse refused day 32 and the manual parsing read it
C26_Witness ==
  /\ Parsed /\ tz = FixedZone(0)
  /\ args.dateStr \in FallbackTexts /\ args.dateStr[6] = "August"
  /\ LegacyDate(CleanStr) = NoDate
  /\ outcome.value = [y |-> 2025, m |-> 9, d |-> 1, h |-> 20, mi |-> 45, s |-> 46]

\* --- C27 --------------------------------------------------------------
\* the host is running, or has run, the script of listTodosJson over to-dos
\* whose properties may fail to read
Recording == op = "listTodosJson" /\ "todoData" \in DOMAIN host

Tolerated ==
  {"dueDate", "activationDate", "completionDate", "cancellationDate", "project", "area"}
Strict ==
  {"id", "name", "notes", "status", "tagNames", "creationDate", "modificationDate"}

\* C27: every record the script appends has the thirteen fields; its due,
\* activation, completion and cancellation dates, its project and its area
\* are null exactly when the host failed to read them for the to-do, and
\* the record is appended all the same; a failure to read the id, the name,
\* the notes, the status, the tag names, the creation date or the
\* modification date of a to-do ends the script with an error and the
\* listing returns nothing; without such a failure every to-do of the list
\* has its record in the result.
C27_RecordTolerance ==
  Recording =>
    /\ \A i \in 1..Len(host.todoData) :
         LET r == host.todoData[i] IN
         /\ DOMAIN r = Tolerated \cup Strict
         /\ \A f \in Tolerated : r[f] = JsNull <=> f \in host.todos[i]
         /\ \A f \in Strict : r[f] # JsNull /\ f \notin host.todos[i]
    /\ pc = "done" =>
         IF \E i \in 1..Len(host.todos) : host.todos[i] \cap Strict # {}
         THEN outcome.kind = "error" /\ result = JsNull
         ELSE /\ outcome.kind = "value" /\ result = JsArray(host.todoData)
              /\ Len(host.todoData) = Len(host.todos)

C27_Witness ==
  /\ Recording /\ pc = "done" /\ outcome.kind = "value"
  /\ Len(host.todos) = 2
  /\ host.todos[1] = {"dueDate", "project"} /\ host.todos[2] = {}
  /\ result.items[1]["dueDate"] = JsNull /\ result.items[1]["project"] = JsNull
  /\ result.items[1]["area"] # JsNull /\ result.items[2]["dueDate"] # JsNull

\* --- C28 --------------------------------------------------------------
\* C28: an update that succeeds returns the title given when one is given
\* and the name the to-do had when it was resolved when none is; either way
\* what it returns is the name of the to-do in the host after the update.
C28_UpdateReturn ==
  (op = "updateTodo" /\ pc = "done" /\ outcome.kind = "value") =>
    /\ Given(args.options.title) => outcome.value = JsString(args.options.title)
    /\ ~Given(args.options.title) =>
         outcome.value = JsString(ToDoById(host, args.id).name)
    /\ outcome.value = JsString(NameAfter(host, attempts))

\* --- C29 --------------------------------------------------------------
\* the host ran the script of complete or update and could not resolve
\* the id
Unresolved ==
  /\ op \in {"completeTodoById", "updateTodo"} /\ pc = "done"
  /\ attempts # <<>> /\ attempts[1].kind = "to do id" /\ ~attempts[1].ok

\* C29: when the id given to complete or update names no to-do, the script
\* fails at its first statement, the host writes no property of any to-do,
\* and the command rejects with the not-found error.
C29_UnresolvedId ==
  Unresolved =>
    /\ Len(attempts) = 1 /\ WritesOf(attempts) = <<>>
    /\ outcome = Rejected(MsgNotFound)

\* --- C30 --------------------------------------------------------------
\* a command of the alternate implementation given no due date
NoDue == op \in {"addTodo", "updateTodo"} /\ Running /\ ~Truthy(args.options.due)

\* C30: without a due date the add and update of the alternate
\* implementation fail the same checks and build the same script as those
\* of the main one, its list and list-json build the same scripts for
\* every container, and its inline decoder makes of every raw record what
\* convertTodoDateFields followed by the tag split makes of it.
C30_AlternateAgrees ==
  /\ (NoDue /\ op = "addTodo") =>
       /\ Built <=> addTodoValidate(args.title, args.options) = NoMsg
       /\ ~Built => outcome = Rejected(addTodoValidate(args.title, args.options))
       /\ Built => script = addTodoScript(args.title, args.options, args.zone)
  /\ (NoDue /\ op = "updateTodo") =>
       /\ Built <=> updateTodoValidate(args.id, args.options) = NoMsg
       /\ ~Built => outcome = Rejected(updateTodoValidate(args.id, args.options))
       /\ Built => script = updateTodoScript(args.id, args.options, args.zone)
  /\ (op = "listTodos" /\ Running) =>
       script = listTodosScript(args.container, args.includeIds)
  /\ (op = "listTodosJson" /\ Running) => script = listTodosJsonScript(args.container)
  /\ Decoded =>
       /\ Len(Out) = Len(Raw)
       /\ \A i \in 1..Len(Raw) :
            /\ Out[i] = cleanTodo(Raw[i], tz)
            /\ [k \in DOMAIN Raw[i] |-> IF k = "tagNames" THEN JsNull ELSE Out[i][k]]
                 = [k \in DOMAIN Raw[i] |->
                      IF k = "tagNames" THEN JsNull ELSE convertTodoDateFields(Raw[i], tz)[k]]
            /\ Out[i]["tags"] = tagsOf(convertTodoDateFields(Raw[i], tz))

\* a decoded list of two records whose first holds a sentinel, a date that
\* is converted, a date that is left as it is and two tags
C30_Witness ==
  /\ Decoded /\ Len(Raw) = 2 /\ Out[1] = cleanTodo(Raw[1], tz)
  /\ dateFields \subseteq DOMAIN Raw[1]
  /\ Raw[1]["notes"] = JsString(NullText) /\ Out[1]["notes"] = JsNull
  /\ Out[1]["dueDate"] = JsString(<<"tomorrow">>)
  /\ IsISO(Out[1]["creationDate"]) /\ Len(Out[1]["tags"].items) = 2

====
